---- MODULE Spec2Model ----
(***************************************************************************)
(* Model of the QuickBooks service of Sheets-Agent-v6-QBO: the token       *)
(* handling of makeApiCall, the retry loop of getReport and the report     *)
(* fallback chain of getProfitAndLossReport.                               *)
(*                                                                         *)
(* The code is sequential.  Each function is a frame with a program        *)
(* counter; every external call (OAuth2 service, UrlFetchApp) is a point   *)
(* where the environment picks the outcome.  Error messages are modelled   *)
(* by the set of keywords that the code later searches them for with       *)
(* String.includes (case sensitive).  The audit sink logAction is taken to *)
(* return normally in this specification.                                  *)
(*                                                                         *)
(* The pure functions have specifications of their own, each starting      *)
(* from every input of a bounded set and applying the function:            *)
(*   SpecDates   the date parameters of the fallback chain                 *)
(*   SpecFlat    formatReportData and the report branch of                 *)
(*               formatDataForSheet (Utils.js)                             *)
(*   SpecQuery   formatQueryData and the query branch of                   *)
(*               formatDataForSheet (Utils.js)                             *)
(*   SpecIntent  validateAndNormalizeIntent (OpenAIService.js)             *)
(* The request pipeline around them is the specification                   *)
(*   SpecPipeline  processQuery, testOpenAIConnection and                  *)
(*               processWithOpenAI, the two functions runQBDiagnostic      *)
(* Further specifications follow one part of the program each:             *)
(*   SpecLedger  getBasicTransactionPLReport with amounts and rows         *)
(*   SpecAuth    getOAuthToken, authCallback, logoutQuickBooks and         *)
(*               resetAllAuth (Code.js) around makeApiCall                 *)
(*   SpecSheet   writeToSheet (Utils.js)                                   *)
(*   SpecChat    sendMessage of the sidebar and the message list of        *)
(*               processWithOpenAI                                         *)
(***************************************************************************)
EXTENDS Integers, Sequences, FiniteSets, TLC

VARIABLES
  hasAccess,     \* service.hasAccess(): a non-expired access token is held
  canRefresh,    \* service.canRefresh(): a refresh token is held
  accessToken,   \* identity of the access token service.getAccessToken() returns
  companyIdSet,  \* script property QBO_COMPANY_ID is non-empty
  entry,         \* the server function that was called from outside
  mac,           \* makeApiCall: program counter
  macCaller,     \* makeApiCall: who called it
  fetchCount,    \* makeApiCall: UrlFetchApp.fetch calls of this invocation
  refreshLog,    \* makeApiCall: service.refresh() calls of this invocation, with outcome
  firstCode,     \* makeApiCall: status of the first response (0: none yet)
  sentTokens,    \* makeApiCall: bearer token of each request of this invocation
  macResult,     \* makeApiCall: returned response or thrown error
  gr,            \* getReport: program counter
  grCaller,      \* getReport: who called it
  retries,       \* getReport: local variable retries
  attemptLog,    \* getReport: outcome of each makeApiCall of this invocation
  sleeps,        \* getReport: Utilities.sleep durations of this invocation
  futureDates,   \* getReport: params.start_date or end_date is after today
  grResult,      \* getReport: returned value
  alt,           \* getAlternativeProfitAndLossReport: program counter
  incomeAccounts, \* getAlternativeProfitAndLossReport: parsed answer of the income query
  altResult,     \* getAlternativeProfitAndLossReport: returned tree or thrown error
  basic,         \* getBasicTransactionPLReport: program counter
  incomeSuccess, \* getBasicTransactionPLReport: local variable incomeSuccess
  expenseSuccess, \* getBasicTransactionPLReport: local variable expenseSuccess
  queried,       \* getBasicTransactionPLReport: transaction types queried so far
  contributed,   \* getBasicTransactionPLReport: types whose total was added, in order
  basicResult,   \* getBasicTransactionPLReport: returned tree
  pl,            \* getProfitAndLossReport: program counter
  invoked,       \* getProfitAndLossReport: strategies invoked so far, in order
  outcomes,      \* getProfitAndLossReport: how each finished strategy ended, in order
  plResult,      \* getProfitAndLossReport: returned tree or thrown error
  rawParams,     \* date handling: params as the caller passed them
  params,        \* date handling: params object of getProfitAndLossReport
  formattedParams, \* date handling: the object passed to getReport
  tzEast,        \* date handling: the script time zone is east of UTC
  today,         \* date handling: day of the year of new Date() in UTC
  datesPc,       \* date handling: program counter
  usedDates,     \* date handling: the date range each strategy has used, in order
  reportData,    \* report flattener: the report passed in
  flatFn,        \* report flattener: the function that was applied
  flatResult,    \* report flattener: the table it returned
  queryData,     \* query formatter: the query response passed in
  queryFn,       \* query formatter: the function that was applied
  queryResult,   \* query formatter: the table it returned
  rawIntent,     \* intent normalizer: the parsed answer of the language model
  originalQuery, \* intent normalizer: what the text of the user names
  intent,        \* intent normalizer: the intent object
  intentPc,      \* intent normalizer: program counter
  loadOrder,     \* which file's function runQBDiagnostic the global name holds
  oai,           \* processWithOpenAI: program counter
  oaiResult,     \* processWithOpenAI: returned intent or thrown error
  testResult,    \* testOpenAIConnection: returned object
  pq,            \* processQuery: program counter
  pqError,       \* processQuery: where the caught exception came from
  pqResponse,    \* processQuery: type of the response executeIntent returned
  pqResult,      \* processQuery: returned response or the exception that left it
  diag,          \* runQBDiagnostic of the service: program counter
  probeLog,      \* runQBDiagnostic of the service: the probes run, in order
  diagResult,    \* runQBDiagnostic of the service: diagnosticResults as returned
  wrap,          \* runQBDiagnostic of Code.js: program counter
  depth,         \* runQBDiagnostic of Code.js: frames of it on the stack
  wrapResult,    \* runQBDiagnostic of Code.js: value returned by the last frame
  txnYield,      \* transaction ledger: the records of each type that yielded data
  totalIncome,   \* transaction ledger: local variable totalIncome
  totalExpenses, \* transaction ledger: local variable totalExpenses
  reportRows,    \* transaction ledger: result.Rows.Row
  reportName,    \* transaction ledger: Header.ReportName of the returned report
  scriptProps,   \* PropertiesService.getScriptProperties(): the stored keys and values
  loggedOut,     \* a logout or reset has succeeded and no authorization since
  authResult,    \* the value the last server function of Code.js returned
  wsInput,       \* writeToSheet: the table as the caller passed it
  clearFirst,    \* writeToSheet: parameter clearFirst
  sheetExisted,  \* writeToSheet: a sheet of the name existed before the call
  wsData,        \* writeToSheet: parameter data, as the function has changed it
  ws,            \* writeToSheet: program counter
  creationAttempts, \* writeToSheet: local variable creationAttempts
  wsLog,         \* writeToSheet: attempts to get the sheet and sleeps, in order
  sheetOps,      \* writeToSheet: what was done to the sheet of the name, in order
  wsResult,      \* writeToSheet: returned object
  conversationHistory, \* sidebar: the list conversationHistory of Script.html
  chat,          \* sidebar: program counter of one exchange
  chatTurn,      \* sidebar: number of the message sent last
  messages       \* processWithOpenAI: the list messages given to the language model

tokenVars == <<hasAccess, canRefresh, accessToken, companyIdSet>>
macVars == <<mac, macCaller, fetchCount, refreshLog, firstCode, sentTokens, macResult>>
grVars == <<gr, grCaller, retries, attemptLog, sleeps, futureDates, grResult>>
altVars == <<alt, incomeAccounts, altResult>>
basicVars == <<basic, incomeSuccess, expenseSuccess, queried, contributed, basicResult>>
plVars == <<pl, invoked, outcomes, plResult>>
chainVars == <<altVars, basicVars, plVars>>
serviceVars == <<tokenVars, entry, macVars, grVars, chainVars>>
dateVars == <<rawParams, params, formattedParams, tzEast, today, datesPc, usedDates>>
flatVars == <<reportData, flatFn, flatResult>>
queryVars == <<queryData, queryFn, queryResult>>
intentVars == <<rawIntent, originalQuery, intent, intentPc>>
oaiVars == <<oai, oaiResult, testResult>>
pqVars == <<pq, pqError, pqResponse, pqResult>>
diagVars == <<diag, probeLog, diagResult>>
wrapVars == <<wrap, depth, wrapResult>>
pipeVars == <<loadOrder, oaiVars, pqVars, diagVars, wrapVars>>
ledgerVars == <<txnYield, totalIncome, totalExpenses, reportRows, reportName>>
authVars == <<scriptProps, loggedOut, authResult>>
sheetVars == <<wsInput, clearFirst, sheetExisted, wsData, ws, creationAttempts, wsLog,
               sheetOps, wsResult>>
chatVars == <<conversationHistory, chat, chatTurn, messages>>
restVars == <<ledgerVars, authVars, sheetVars, chatVars>>
libVars == <<dateVars, flatVars, queryVars, intentVars, pipeVars, restVars>>
exceptDates == <<serviceVars, flatVars, queryVars, intentVars, pipeVars, restVars>>
exceptFlat == <<serviceVars, dateVars, queryVars, intentVars, pipeVars, restVars>>
exceptQuery == <<serviceVars, dateVars, flatVars, intentVars, pipeVars, restVars>>
exceptIntent == <<serviceVars, dateVars, flatVars, queryVars, pipeVars, restVars>>
exceptPipe == <<serviceVars, dateVars, flatVars, queryVars, intentVars, restVars>>
exceptLedger == <<dateVars, flatVars, queryVars, intentVars, pipeVars, authVars, sheetVars,
                  chatVars>>
exceptAuth == <<dateVars, flatVars, queryVars, intentVars, pipeVars, ledgerVars, sheetVars,
                chatVars>>
exceptSheet == <<serviceVars, dateVars, flatVars, queryVars, intentVars, pipeVars, ledgerVars,
                 authVars, chatVars>>
exceptChat == <<serviceVars, dateVars, flatVars, queryVars, intentVars, pipeVars, ledgerVars,
                authVars, sheetVars>>
vars == <<serviceVars, libVars>>

-----------------------------------------------------------------------------
(* Bounds and program constants *)

\* number of distinct access token identities (a refresh yields the next one)
TokenIds == 3

\* frames of one function the stack holds before a call throws RangeError
StackDepth == 3

\* const maxRetries = 3 in getReport
maxRetries == 3

\* Utilities.sleep(1000 * Math.pow(2, retries))
backoffBase == 1000

-----------------------------------------------------------------------------
(* The environment: HTTP responses and errors *)

\* HTTP status codes the API answers with
Codes == {200, 400, 401, 403, 500}

\* Shapes of a response body, as far as the code distinguishes them:
\*   unparseable    JSON.parse throws; the message has none of the keywords
\*   unparseableTok JSON.parse throws "Unexpected token ..."
\*   null           the JSON value null
\*   scalar         a JSON number, string or boolean
\*   fault          an object with a lower-case fault member
\*   FaultPlain     an object with a Fault member, message without keywords
\*   FaultPerm      an object with a Fault member, message contains "permission"
\*   report         an object with Columns.Column and Rows.Row
\*   reportNoCols   an object with Rows.Row but without Columns
\*   reportNoRows   an object with Columns but without Rows
\*   reportNoRow    an object with Columns and Rows, but without Rows.Row
\*   records        an object with QueryResponse holding entity records
\*   empty          an object with an empty QueryResponse
Bodies == {"unparseable", "unparseableTok", "null", "scalar", "fault",
           "FaultPlain", "FaultPerm", "report", "reportNoCols",
           "reportNoRows", "reportNoRow", "records", "empty"}

NoErr == [name |-> "none", kw |-> {}]

\* 'No access to QuickBooks API. Please authenticate in settings.'
ErrAuthRequired == [name |-> "AuthRequired", kw |-> {"access"}]

\* 'QuickBooks access token expired and refresh failed. Please reconnect.'
ErrAuthExpired == [name |-> "AuthExpired", kw |-> {"access", "token"}]

\* 'Company ID not set. Please configure in settings.'
ErrCompanyId == [name |-> "CompanyIdNotSet", kw |-> {}]

\* 'Authentication failed with QuickBooks API. Please reconnect.'
ErrAuthFailed == [name |-> "AuthFailed", kw |-> {}]

\* 'Network connectivity issue when connecting to QuickBooks. ...'
ErrNetwork == [name |-> "Network", kw |-> {}]

\* 'Not authenticated with QuickBooks. Please reconnect.'
ErrNotAuthenticated == [name |-> "NotAuthenticated", kw |-> {}]

\* exceptions of UrlFetchApp.fetch: one whose message contains 'network', one not
FetchErrs == {[name |-> "FetchNetwork", kw |-> {"network"}],
              [name |-> "FetchTimeout", kw |-> {}]}

NoResult == [k |-> "none", code |-> 0, body |-> "none", err |-> NoErr]

Resp(c, b) == [k |-> "resp", code |-> c, body |-> b, err |-> NoErr]

Thrown(e) == [k |-> "err", code |-> 0, body |-> "none", err |-> e]

\* what one UrlFetchApp.fetch can do: answer, or throw
FetchOutcomes == {Resp(c, b) : c \in Codes, b \in Bodies} \cup {Thrown(e) : e \in FetchErrs}

\* one service.refresh() call: what triggered it ("expired": no access before
\* the request, "401": the answer to the request) and the boolean the code
\* reads from it
Refreshed(why, ok) == [why |-> why, ok |-> ok]

\* the token a successful service.refresh() stores
NewToken(t) == (t + 1) % TokenIds

-----------------------------------------------------------------------------
(* makeApiCall *)

MacEnter(caller) ==
  /\ mac' = "entry"
  /\ macCaller' = caller
  /\ fetchCount' = 0
  /\ refreshLog' = <<>>
  /\ firstCode' = 0
  /\ sentTokens' = <<>>
  /\ macResult' = NoResult

\* the caller has taken the result: the frame is gone
MacExit ==
  /\ mac' = "off"
  /\ macCaller' = "top"
  /\ fetchCount' = 0
  /\ refreshLog' = <<>>
  /\ firstCode' = 0
  /\ sentTokens' = <<>>
  /\ macResult' = NoResult

\* the catch block: a message containing 'network' is replaced, others rethrown
MacCatch(e) == IF "network" \in e.kw THEN ErrNetwork ELSE e

MacThrow(e) ==
  /\ mac' = "ret"
  /\ macResult' = Thrown(MacCatch(e))

MacReturn(r) ==
  /\ mac' = "ret"
  /\ macResult' = r

MacGoto(p) ==
  /\ mac' = p
  /\ UNCHANGED macResult

\* MacEnsureAccess, but a failed refresh does not stop the request
MacEnsureAccessIgnoreRefresh ==
  /\ mac = "entry"
  /\ \E ok \in BOOLEAN :
       LET needRefresh == ~hasAccess /\ canRefresh
           refreshed == needRefresh /\ ok
       IN /\ refreshLog' = IF needRefresh THEN Append(refreshLog, Refreshed("expired", ok)) ELSE refreshLog
          /\ hasAccess' = (hasAccess \/ refreshed)
          /\ accessToken' = IF refreshed THEN NewToken(accessToken) ELSE accessToken
          /\ IF ~hasAccess /\ ~canRefresh THEN MacThrow(ErrAuthRequired)
             ELSE IF ~companyIdSet THEN MacThrow(ErrCompanyId)
             ELSE MacGoto("fetch")
  /\ UNCHANGED <<canRefresh, companyIdSet, entry, macCaller, fetchCount, firstCode, sentTokens, grVars, chainVars>>
  /\ UNCHANGED libVars

\* hasAccess / canRefresh / refresh before the request, then the company id
MacEnsureAccess ==
  /\ mac = "entry"
  /\ \E ok \in BOOLEAN :
       LET needRefresh == ~hasAccess /\ canRefresh
           refreshed == needRefresh /\ ok
       IN /\ refreshLog' = IF needRefresh THEN Append(refreshLog, Refreshed("expired", ok)) ELSE refreshLog
          /\ hasAccess' = (hasAccess \/ refreshed)
          /\ accessToken' = IF refreshed THEN NewToken(accessToken) ELSE accessToken
          /\ IF ~hasAccess /\ ~canRefresh THEN MacThrow(ErrAuthRequired)
             ELSE IF needRefresh /\ ~ok THEN MacThrow(ErrAuthExpired)
             ELSE IF ~companyIdSet THEN MacThrow(ErrCompanyId)
             ELSE MacGoto("fetch")
  /\ UNCHANGED <<canRefresh, companyIdSet, entry, macCaller, fetchCount, firstCode, sentTokens, grVars, chainVars>>
  /\ UNCHANGED libVars

\* the request, and on a 401 the refresh that precedes the retry
MacFetch ==
  /\ mac = "fetch"
  /\ fetchCount' = fetchCount + 1
  /\ sentTokens' = Append(sentTokens, accessToken)
  /\ \E o \in FetchOutcomes, ok \in BOOLEAN :
       IF o.k = "err"
       THEN /\ MacThrow(o.err)
            /\ UNCHANGED <<firstCode, refreshLog, accessToken>>
       ELSE /\ firstCode' = o.code
            /\ IF o.code = 401
               THEN IF canRefresh
                    THEN /\ refreshLog' = Append(refreshLog, Refreshed("401", ok))
                         /\ IF ok
                            THEN /\ accessToken' = NewToken(accessToken)
                                 /\ MacGoto("retry")
                            ELSE /\ MacThrow(ErrAuthFailed)
                                 /\ UNCHANGED accessToken
                    ELSE /\ MacThrow(ErrAuthFailed)
                         /\ UNCHANGED <<refreshLog, accessToken>>
               ELSE /\ MacReturn(o)
                    /\ UNCHANGED <<refreshLog, accessToken>>
  /\ UNCHANGED <<hasAccess, canRefresh, companyIdSet, entry, macCaller, grVars, chainVars>>
  /\ UNCHANGED libVars

\* the retry sent with the options as they were built for the first request
AuthorizationKept(sent, token) == sent[1]

\* options.headers['Authorization'] = 'Bearer ' + service.getAccessToken()
\* after the refresh: the token the service holds now
AuthorizationAfterRefresh(sent, token) == token

\* MacRetry, but a second 401 is retried once more
MacRetryAgainOn401 ==
  /\ mac = "retry"
  /\ fetchCount' = fetchCount + 1
  /\ sentTokens' = Append(sentTokens, accessToken)
  /\ \E o \in FetchOutcomes :
       IF o.k = "err" THEN MacThrow(o.err)
       ELSE IF o.code = 401 THEN MacGoto("retry")
       ELSE MacReturn(o)
  /\ UNCHANGED <<tokenVars, entry, macCaller, refreshLog, firstCode, grVars, chainVars>>
  /\ UNCHANGED libVars

\* return UrlFetchApp.fetch(url, options) after the refresh
MacRetry ==
  /\ mac = "retry"
  /\ fetchCount' = fetchCount + 1
  /\ sentTokens' = Append(sentTokens, AuthorizationAfterRefresh(sentTokens, accessToken))
  /\ \E o \in FetchOutcomes :
       IF o.k = "err" THEN MacThrow(o.err) ELSE MacReturn(o)
  /\ UNCHANGED <<tokenVars, entry, macCaller, refreshLog, firstCode, grVars, chainVars>>
  /\ UNCHANGED libVars

-----------------------------------------------------------------------------
(* getReport *)

NoReport == [type |-> "none", body |-> "none", err |-> NoErr]

SystemFault(e) == [type |-> "SystemFault", body |-> "none", err |-> e]

ReportData(b) == [type |-> "data", body |-> b, err |-> NoErr]

\* the canned report of the 400 / future date branch
FutureReport == [type |-> "data", body |-> "report", err |-> NoErr]

\* 'Invalid response format from QuickBooks: ...'
ErrInvalidFormat == [name |-> "InvalidFormat", kw |-> {}]

\* 'QuickBooks API call failed with status: ' + code
ErrStatus(c) ==
  [name |-> CASE c = 400 -> "Status400" [] c = 401 -> "Status401"
              [] c = 403 -> "Status403" [] OTHER -> "Status500",
   kw |-> {}]

\* bodies on which JSON.parse(content) or the read of data.fault throws, or
\* whose fault member makes getReport throw
\* GrRejects, but every body is taken as a report
GrRejectsNothing(b) == FALSE

GrRejects(b) == b \in {"unparseable", "unparseableTok", "null", "fault"}

\* what getReport does with the response makeApiCall returned
GrHandle(r, fd) ==
  IF r.code = 200
  THEN IF GrRejects(r.body) THEN SystemFault(ErrInvalidFormat) ELSE ReportData(r.body)
  ELSE IF r.code = 400 /\ fd THEN FutureReport
  ELSE SystemFault(ErrStatus(r.code))

\* Backoff, but growing linearly
BackoffLinear(n) == backoffBase * (n + 1)

Backoff(n) == backoffBase * 2 ^ n

GrEnter(caller, fd) ==
  /\ gr' = "start"
  /\ grCaller' = caller
  /\ retries' = 0
  /\ attemptLog' = <<>>
  /\ sleeps' = <<>>
  /\ futureDates' = fd
  /\ grResult' = NoReport

GrReturn(v) ==
  /\ gr' = "ret"
  /\ grResult' = v

\* the caller has taken the result: the frame is gone
GrExit ==
  /\ gr' = "off"
  /\ grCaller' = "top"
  /\ retries' = 0
  /\ attemptLog' = <<>>
  /\ sleeps' = <<>>
  /\ futureDates' = FALSE
  /\ grResult' = NoReport

\* if (!isAuthenticated()) throw ...; parameter defaults; retries = 0
GrStart ==
  /\ gr = "start"
  /\ IF hasAccess
     THEN gr' = "loop" /\ UNCHANGED grResult
     ELSE GrReturn(SystemFault(ErrNotAuthenticated))
  /\ UNCHANGED <<tokenVars, entry, macVars, grCaller, retries, attemptLog, sleeps, futureDates, chainVars>>
  /\ UNCHANGED libVars

\* while (retries < maxRetries) { try { response = makeApiCall(...)
GrAttempt ==
  /\ gr = "loop"
  /\ retries < maxRetries
  /\ gr' = "wait"
  /\ MacEnter("getReport")
  /\ UNCHANGED <<tokenVars, entry, grCaller, retries, attemptLog, sleeps, futureDates, grResult, chainVars>>
  /\ UNCHANGED libVars

\* GrAfterAttempt, but a response other than 200 is retried like an exception
GrAfterAttemptRetryStatus ==
  /\ gr = "wait"
  /\ mac = "ret"
  /\ macCaller = "getReport"
  /\ MacExit
  /\ IF macResult.k = "resp" /\ (macResult.code = 200 \/ retries + 1 >= maxRetries)
     THEN /\ attemptLog' = Append(attemptLog, "resp")
          /\ GrReturn(GrHandle(macResult, futureDates))
          /\ UNCHANGED <<retries, sleeps>>
     ELSE /\ attemptLog' = Append(attemptLog, IF macResult.k = "resp" THEN "resp" ELSE macResult.err.name)
          /\ retries' = retries + 1
          /\ IF retries + 1 >= maxRetries
             THEN /\ GrReturn(SystemFault(macResult.err))
                  /\ UNCHANGED sleeps
             ELSE /\ sleeps' = Append(sleeps, Backoff(retries + 1))
                  /\ gr' = "loop"
                  /\ UNCHANGED grResult
  /\ UNCHANGED <<tokenVars, entry, grCaller, futureDates, chainVars>>
  /\ UNCHANGED libVars

\* makeApiCall returned: break and handle the response; it threw: count,
\* rethrow after the last attempt, otherwise sleep and loop
GrAfterAttempt ==
  /\ gr = "wait"
  /\ mac = "ret"
  /\ macCaller = "getReport"
  /\ MacExit
  /\ IF macResult.k = "resp"
     THEN /\ attemptLog' = Append(attemptLog, "resp")
          /\ GrReturn(GrHandle(macResult, futureDates))
          /\ UNCHANGED <<retries, sleeps>>
     ELSE /\ attemptLog' = Append(attemptLog, macResult.err.name)
          /\ retries' = retries + 1
          /\ IF retries + 1 >= maxRetries
             THEN /\ GrReturn(SystemFault(macResult.err))
                  /\ UNCHANGED sleeps
             ELSE /\ sleeps' = Append(sleeps, Backoff(retries + 1))
                  /\ gr' = "loop"
                  /\ UNCHANGED grResult
  /\ UNCHANGED <<tokenVars, entry, grCaller, futureDates, chainVars>>
  /\ UNCHANGED libVars

-----------------------------------------------------------------------------
(* callQuickBooksApi / queryQuickBooks *)

QVal(b) == [k |-> "val", body |-> b, err |-> NoErr]

QErr(e) == [k |-> "err", body |-> "none", err |-> e]

\* SyntaxError of JSON.parse whose message has none of the keywords
ErrSyntax == [name |-> "SyntaxError", kw |-> {}]

\* SyntaxError of JSON.parse: 'Unexpected token ...'
ErrSyntaxTok == [name |-> "SyntaxError", kw |-> {"token"}]

\* Error(JSON.stringify({statusCode, message, fault})): the text carries the
\* message of the Fault member of the body, when there is one
ErrApi(b) == [name |-> "ApiError", kw |-> IF b = "FaultPerm" THEN {"permission"} ELSE {}]

\* the value callQuickBooksApi returns, or the error it throws, given what
\* makeApiCall returned or threw
callQuickBooksApi(r) ==
  IF r.k = "err" THEN QErr(r.err)
  ELSE IF r.code >= 200 /\ r.code < 300
  THEN IF r.body = "unparseable" THEN QErr(ErrSyntax)
       ELSE IF r.body = "unparseableTok" THEN QErr(ErrSyntaxTok)
       ELSE QVal(r.body)
  ELSE QErr(ErrApi(r.body))

-----------------------------------------------------------------------------
(* Report trees *)

NoTree ==
  [k |-> "none", src |-> "none", Columns |-> FALSE, Rows |-> FALSE, data |-> 0,
   err |-> NoErr]

\* a returned tree: who built it, whether it has Columns.Column and Rows.Row,
\* and how many of its sides (income, expenses) have a row made from a record
Tree(s, c, r, d) ==
  [k |-> "tree", src |-> s, Columns |-> c, Rows |-> r, data |-> d, err |-> NoErr]

Throw(e) ==
  [k |-> "throw", src |-> "none", Columns |-> FALSE, Rows |-> FALSE, data |-> 0,
   err |-> e]

\* reportResponse.Rows && reportResponse.Rows.Row
HasRowsRow(b) == b \in {"report", "reportNoCols"}

\* data.Columns && data.Columns.Column
HasColumns(b) == b \in {"report", "reportNoRows", "reportNoRow"}

-----------------------------------------------------------------------------
(* getAlternativeProfitAndLossReport: account-balance aggregation *)

\* TypeError: reading QueryResponse of null
ErrTypeError == [name |-> "TypeError", kw |-> {}]

\* 'Unable to retrieve P&L data using alternative method: ' + error.message
ErrAlternative(e) == [name |-> "AlternativeFailed", kw |-> e.kw]

\* 1 when the answer has QueryResponse.Account, so that account rows are
\* pushed after the section header; 0 when only the header is pushed
Accounts(b) == IF b = "records" THEN 1 ELSE 0

\* build the empty result and send the income account query
AltEnter ==
  /\ alt' = "income"
  /\ incomeAccounts' = "none"
  /\ altResult' = NoTree
  /\ MacEnter("altIncome")

\* the caller has taken the result: the frame is gone
AltExit ==
  /\ alt' = "off"
  /\ incomeAccounts' = "none"
  /\ altResult' = NoTree

AltThrow(e) ==
  /\ alt' = "ret"
  /\ altResult' = Throw(ErrAlternative(e))

\* the income query answered: keep it and send the expense account query
AltAfterIncome ==
  /\ alt = "income"
  /\ mac = "ret"
  /\ macCaller = "altIncome"
  /\ LET q == callQuickBooksApi(macResult)
     IN IF q.k = "err"
        THEN /\ AltThrow(q.err)
             /\ MacExit
             /\ UNCHANGED incomeAccounts
        ELSE /\ incomeAccounts' = q.body
             /\ alt' = "expense"
             /\ MacEnter("altExpense")
             /\ UNCHANGED altResult
  /\ UNCHANGED <<tokenVars, entry, grVars, basicVars, plVars>>
  /\ UNCHANGED libVars

\* the expense query answered: fill the Income and Expenses sections
AltAfterExpense ==
  /\ alt = "expense"
  /\ mac = "ret"
  /\ macCaller = "altExpense"
  /\ MacExit
  /\ LET q == callQuickBooksApi(macResult)
     IN IF q.k = "err" THEN AltThrow(q.err)
        ELSE IF incomeAccounts = "null" \/ q.body = "null" THEN AltThrow(ErrTypeError)
        ELSE /\ alt' = "ret"
             /\ altResult' = Tree("alternative", TRUE, TRUE,
                                  Accounts(incomeAccounts) + Accounts(q.body))
  /\ UNCHANGED <<tokenVars, entry, grVars, incomeAccounts, basicVars, plVars>>
  /\ UNCHANGED libVars

-----------------------------------------------------------------------------
(* getBasicTransactionPLReport: transaction aggregation *)

IncomeTypes == {"Invoice", "SalesReceipt", "Deposit"}

\* NextType, but every type is queried whatever the success flags are
NextTypeAll(t, inc, exp) ==
  CASE t = "Invoice" -> "SalesReceipt"
    [] t = "SalesReceipt" -> "Deposit"
    [] t = "Deposit" -> "Bill"
    [] t = "Bill" -> "Purchase"
    [] t = "Purchase" -> "Expense"
    [] OTHER -> "done"

\* the transaction type queried after t, given the success flags; "done"
\* when the queries are over
NextType(t, inc, exp) ==
  CASE t = "Invoice" -> IF ~inc THEN "SalesReceipt" ELSE "Bill"
    [] t = "SalesReceipt" -> IF ~inc THEN "Deposit" ELSE "Bill"
    [] t = "Deposit" -> "Bill"
    [] t = "Bill" -> IF ~exp THEN "Purchase" ELSE "done"
    [] t = "Purchase" -> IF ~exp THEN "Expense" ELSE "done"
    [] OTHER -> "done"

\* build the empty result, push the Income section, send the Invoice query
BasicEnter ==
  /\ basic' = "query"
  /\ incomeSuccess' = FALSE
  /\ expenseSuccess' = FALSE
  /\ queried' = <<"Invoice">>
  /\ contributed' = <<>>
  /\ basicResult' = NoTree
  /\ MacEnter("basic")

\* the caller has taken the result: the frame is gone
BasicExit ==
  /\ basic' = "off"
  /\ incomeSuccess' = FALSE
  /\ expenseSuccess' = FALSE
  /\ queried' = <<>>
  /\ contributed' = <<>>
  /\ basicResult' = NoTree

\* a transaction query answered or failed: a failure is logged and skipped,
\* an answer with records of the type sets the success flag of its section
BasicAfterQuery ==
  /\ basic = "query"
  /\ mac = "ret"
  /\ macCaller = "basic"
  /\ LET q == callQuickBooksApi(macResult)
         t == queried[Len(queried)]
         found == q.k = "val" /\ q.body = "records"
         inc == incomeSuccess \/ (t \in IncomeTypes /\ found)
         exp == expenseSuccess \/ (t \notin IncomeTypes /\ found)
         next == NextType(t, inc, exp)
     IN /\ incomeSuccess' = inc
        /\ contributed' = IF found THEN Append(contributed, t) ELSE contributed
        /\ expenseSuccess' = exp
        /\ IF next = "done"
           THEN /\ basic' = "ret"
                /\ basicResult' = Tree("basic", TRUE, TRUE,
                                       (IF inc THEN 1 ELSE 0) + (IF exp THEN 1 ELSE 0))
                /\ MacExit
                /\ UNCHANGED queried
           ELSE /\ queried' = Append(queried, next)
                /\ MacEnter("basic")
                /\ UNCHANGED <<basic, basicResult>>
  /\ UNCHANGED <<tokenVars, entry, grVars, altVars, plVars>>
  /\ UNCHANGED libVars

-----------------------------------------------------------------------------
(* getProfitAndLossReport: the fallback chain *)

\* reportResponse.message of the SystemFault object getReport returns:
\* '... This may be due to API permissions, authentication issues, or ...'
ErrSystemFault == [name |-> "SystemFault", kw |-> {"permission", "authentication"}]

\* 'Invalid response format from QuickBooks API'
ErrInvalidResponse == [name |-> "InvalidResponse", kw |-> {}]

\* 'QuickBooks API error: ' + fault.Error[0].Message
ErrApiFault(b) == [name |-> "ApiFault", kw |-> IF b = "FaultPerm" THEN {"permission"} ELSE {}]

\* 'QuickBooks authentication error. Please reconnect to QuickBooks in settings.'
ErrPLAuth == [name |-> "PLAuthentication", kw |-> {"authentication"}]

\* 'QuickBooks permission error. Your account may not have access to P&L reports.'
ErrPLPerm == [name |-> "PLPermission", kw |-> {"permission", "access"}]

\* 'Failed to retrieve ProfitAndLoss report: All available methods failed. ...'
ErrAllFailed == [name |-> "AllMethodsFailed", kw |-> {"permission", "access"}]

\* keywords of the authentication check of the catch block
AuthWords == {"authentication", "authorized", "token", "OAuth"}

\* keywords of the permission check of the catch block
PermWords == {"permission", "access", "insufficient", "denied"}

PLReturn(v) ==
  /\ pl' = "ret"
  /\ plResult' = v

\* the catch block: rethrow as authentication or permission error when the
\* message has one of the keywords, otherwise call the alternative method
PLCatch(e) ==
  IF e.kw \cap AuthWords # {}
  THEN /\ PLReturn(Throw(ErrPLAuth))
       /\ AltExit
       /\ UNCHANGED <<invoked, macVars>>
  ELSE IF e.kw \cap PermWords # {}
  THEN /\ PLReturn(Throw(ErrPLPerm))
       /\ AltExit
       /\ UNCHANGED <<invoked, macVars>>
  ELSE /\ pl' = "alt2"
       /\ invoked' = Append(invoked, "alternative")
       /\ AltEnter
       /\ UNCHANGED plResult

\* getReport returned: SystemFault, invalid value and Fault are thrown to
\* the catch block; a tree without Rows.Row goes to the alternative method
\* from inside the try block; any other value is returned
PLAfterReport ==
  /\ pl = "report"
  /\ gr = "ret"
  /\ grCaller = "pl"
  /\ GrExit
  /\ LET v == grResult
     IN IF v.type = "SystemFault"
        THEN /\ outcomes' = Append(outcomes, v.err.name)
             /\ PLCatch(ErrSystemFault)
        ELSE IF v.body = "scalar"
        THEN /\ outcomes' = Append(outcomes, "invalid")
             /\ PLCatch(ErrInvalidResponse)
        ELSE IF v.body \in {"FaultPlain", "FaultPerm"}
        THEN /\ outcomes' = Append(outcomes, "invalid")
             /\ PLCatch(ErrApiFault(v.body))
        ELSE IF ~HasRowsRow(v.body)
        THEN /\ outcomes' = Append(outcomes, "norows")
             /\ pl' = "alt1"
             /\ invoked' = Append(invoked, "alternative")
             /\ AltEnter
             /\ UNCHANGED plResult
        ELSE /\ outcomes' = Append(outcomes, "usable")
             /\ PLReturn(Tree("direct", HasColumns(v.body), TRUE, 2))
             /\ UNCHANGED <<invoked, altVars, macVars>>
  /\ UNCHANGED <<tokenVars, entry, basicVars>>
  /\ UNCHANGED libVars

\* PLAfterAlt, but the basic transaction method also runs after the
\* alternative method called from the catch block has returned a tree
PLAfterAltAlwaysBasic ==
  /\ pl \in {"alt1", "alt2"}
  /\ alt = "ret"
  /\ outcomes' = Append(outcomes, IF altResult.k = "tree" THEN "tree" ELSE "threw")
  /\ IF altResult.k = "tree" /\ pl = "alt1"
     THEN /\ PLReturn(altResult)
          /\ AltExit
          /\ UNCHANGED <<invoked, macVars, basicVars>>
     ELSE IF pl = "alt1"
     THEN /\ PLCatch(altResult.err)
          /\ UNCHANGED basicVars
     ELSE /\ pl' = "basic"
          /\ invoked' = Append(invoked, "basic")
          /\ BasicEnter
          /\ AltExit
          /\ UNCHANGED plResult
  /\ UNCHANGED <<tokenVars, entry, grVars>>
  /\ UNCHANGED libVars

\* the alternative method returned or threw.  Called from the try block, its
\* error reaches the catch block; called from the catch block, its error
\* leads to the basic transaction method
PLAfterAlt ==
  /\ pl \in {"alt1", "alt2"}
  /\ alt = "ret"
  /\ outcomes' = Append(outcomes, IF altResult.k = "tree" THEN "tree" ELSE "threw")
  /\ IF altResult.k = "tree"
     THEN /\ PLReturn(altResult)
          /\ AltExit
          /\ UNCHANGED <<invoked, macVars, basicVars>>
     ELSE IF pl = "alt1"
     THEN /\ PLCatch(altResult.err)
          /\ UNCHANGED basicVars
     ELSE /\ pl' = "basic"
          /\ invoked' = Append(invoked, "basic")
          /\ BasicEnter
          /\ AltExit
          /\ UNCHANGED plResult
  /\ UNCHANGED <<tokenVars, entry, grVars>>
  /\ UNCHANGED libVars

\* the basic transaction method returned or threw
PLAfterBasic ==
  /\ pl = "basic"
  /\ basic = "ret"
  /\ outcomes' = Append(outcomes, IF basicResult.k = "tree" THEN "tree" ELSE "threw")
  /\ IF basicResult.k = "tree"
     THEN PLReturn(basicResult)
     ELSE PLReturn(Throw(ErrAllFailed))
  /\ BasicExit
  /\ UNCHANGED <<tokenVars, entry, macVars, grVars, altVars, invoked>>
  /\ UNCHANGED libVars

-----------------------------------------------------------------------------
(* Date parameters of getProfitAndLossReport and getReport.                *)
(* A date is a kind and a day of the current year (1 is 1 January,         *)
(* YearDays is 31 December; 0 is 31 December of the year before):          *)
(*   "iso"       a 'YYYY-MM-DD' string, which new Date() reads as UTC      *)
(*   "local"     another date string new Date() can read ('1/15/2024'),    *)
(*               which it reads as midnight in the script time zone        *)
(*   "malformed" a string new Date() cannot read                           *)
(*   "absent"    undefined or ''                                           *)

\* days of the model's year
YearDays == 3

Absent == [kind |-> "absent", day |-> 0]

Malformed == [kind |-> "malformed", day |-> 0]

Iso(d) == [kind |-> "iso", day |-> d]

\* the values a caller can pass as start_date or end_date
DateInputs ==
  {Absent, Malformed} \cup {[kind |-> k, day |-> d] : k \in {"iso", "local"}, d \in 1..YearDays}

\* the UTC day of midnight of day d in the script time zone
UtcDay(d, east) == IF east THEN d - 1 ELSE d

\* try { params.x = new Date(params.x).toISOString().split('T')[0] }
\* catch (e) { console.error(...) }: toISOString throws RangeError on an
\* invalid date, and the parameter keeps its value
toISOString(x, east) ==
  CASE x.kind = "iso" -> x
    [] x.kind = "local" -> Iso(UtcDay(x.day, east))
    [] OTHER -> x

\* Utilities.formatDate(new Date(today.getFullYear(), 0, 1), 'GMT', 'yyyy-MM-dd')
firstDayOfYear(east) == Iso(UtcDay(1, east))

DatesOff ==
  /\ rawParams = [start_date |-> Absent, end_date |-> Absent]
  /\ params = rawParams
  /\ formattedParams = rawParams
  /\ tzEast = FALSE
  /\ today = 1
  /\ datesPc = "off"
  /\ usedDates = <<>>

-----------------------------------------------------------------------------
(* Report trees of the flattener (Utils.js).                               *)
(* A cell is the value of a ColData entry, or a text the code writes.  A   *)
(* row node has the fields the code looks at: type, Header.ColData,        *)
(* ColData, Summary.ColData and Rows.Row, each of the last four present or *)
(* not.  The cells of a node carry the node's position in the tree, so     *)
(* that a row of the table shows which node it was made from.              *)

\* most columns of a report
MaxCols == 2

\* most child rows of a section
MaxKids == 2

\* the j-th ColData value of the node at position n
Cell(n, j) == [node |-> n, col |-> j, text |-> "value"]

\* a text written by the code
Text(t) == [node |-> 0, col |-> 0, text |-> t]

\* the empty string
Empty == Text("")

\* ColData entries 1..c of the node at position n
Cells(n, c) == [j \in 1..c |-> Cell(n, j)]

\* an object with ColData, or no object
Some(cells) == [has |-> TRUE, ColData |-> cells]

None == [has |-> FALSE, ColData |-> <<>>]

\* shapes of row nodes without child rows: {type:'Data', ColData},
\* {Summary:{ColData}}, {}, {type:'Section', Header:{ColData}} and
\* {type:'Section'}
Leaf(k, h) == [kind |-> k, hasHeader |-> h, kids |-> <<>>]

LeafShapes ==
  {Leaf("Data", FALSE), Leaf("Summary", FALSE), Leaf("Unknown", FALSE),
   Leaf("Section", TRUE), Leaf("Section", FALSE)}

\* non-empty sequences over S of at most MaxKids elements
Kids(S) == UNION {[1..m -> S] : m \in 1..MaxKids}

\* sections with child rows taken from S, with and without Header
SectionsOf(S) ==
  {[kind |-> "Section", hasHeader |-> h, kids |-> ks] : h \in BOOLEAN, ks \in Kids(S)}

\* sections that hold one section of leaves
NestedSections ==
  {[kind |-> "Section", hasHeader |-> TRUE, kids |-> <<sh>>] : sh \in SectionsOf(LeafShapes)}

RowShapes == LeafShapes \cup SectionsOf(LeafShapes) \cup NestedSections

\* Rows.Row of a report: no row, one row, or a row followed by a leaf
TopShapes ==
  {<<>>} \cup {<<a>> : a \in RowShapes}
         \cup {<<a, b>> : a \in RowShapes, b \in LeafShapes}

RECURSIVE Node(_, _, _)
\* the row node of shape sh at position n whose ColData lists have c entries
Node(sh, n, c) ==
  [type |-> IF sh.kind \in {"Section", "Data"} THEN sh.kind ELSE "none",
   Header |-> IF sh.hasHeader THEN Some(Cells(n, c)) ELSE None,
   ColData |-> IF sh.kind = "Data" THEN Some(Cells(n, c)) ELSE None,
   Summary |-> IF sh.kind = "Summary" THEN Some(Cells(n, c)) ELSE None,
   Rows |-> [has |-> sh.kids # <<>>,
             Row |-> [i \in DOMAIN sh.kids |-> Node(sh.kids[i], 10 * n + i, c)]]]

\* Columns of a report: absent, an object without Column, or n columns
ColumnsInputs ==
  {[k |-> "absent", n |-> 0], [k |-> "noColumn", n |-> 0]}
    \cup {[k |-> "cols", n |-> n] : n \in 1..MaxCols}

\* the report with top-level rows of shapes shs, c ColData entries per row,
\* Columns cols, and a Header.ReportName that is one of the basic names or not
Report(shs, c, cols, basicName) ==
  [basicName |-> basicName,
   Columns |-> cols,
   Rows |-> [Row |-> [i \in DOMAIN shs |-> Node(shs[i], i, c)]]]

\* a table: the header row and the rows under it
Table(h, r) == [headers |-> h, rows |-> r]

NoTable == Table(<<>>, <<>>)

RECURSIVE Concat(_)
\* the concatenation of a sequence of sequences
Concat(ss) == IF ss = <<>> THEN <<>> ELSE Head(ss) \o Concat(Tail(ss))

\* cells right-padded with empty strings to w cells, and cut to w cells
\* (for (let i = 0; i < headers.length; i++) ...)
Exactly(cells, w) == [i \in 1..w |-> IF i <= Len(cells) THEN cells[i] ELSE Empty]

\* cells right-padded with empty strings to w cells
\* (while (values.length < headers.length) values.push(''))
PadTo(cells, w) ==
  cells \o [i \in 1..(IF w > Len(cells) THEN w - Len(cells) ELSE 0) |-> Empty]

\* headers of formatReportData
ReportDataHeaders(data) ==
  IF data.basicName THEN <<Text("Category"), Text("Amount")>>
  ELSE IF data.Columns.k = "cols" THEN [i \in 1..data.Columns.n |-> Text("ColTitle")]
  ELSE <<Text("Category"), Text("Amount")>>

\* ReportDataRows, but a row that is no section, no data row and has no
\* Summary gives a row of empty strings
ReportDataRowsNoSkip(row, w, isBasicReport) ==
  IF row.type = "Section"
  THEN LET headerValue == IF row.Header.has /\ Len(row.Header.ColData) >= 1
                          THEN row.Header.ColData[1] ELSE Text("Section")
       IN IF isBasicReport THEN << <<headerValue, Empty>> >>
          ELSE << <<headerValue>> \o [i \in 1..(w - 1) |-> Empty] >>
  ELSE IF row.type = "Data"
  THEN << Exactly(row.ColData.ColData, IF isBasicReport THEN 2 ELSE w) >>
  ELSE IF row.Summary.has
  THEN LET d == row.Summary.ColData
       IN IF isBasicReport
          THEN << <<IF Len(d) > 0 THEN d[1] ELSE Text("Total"),
                    IF Len(d) > 1 THEN d[2] ELSE Empty>> >>
          ELSE << Exactly(d, w) >>
  ELSE << Exactly(<<>>, w) >>

\* the body of rows.forEach in formatReportData: the rows pushed for one
\* top-level row (one or none); child rows are not visited
ReportDataRows(row, w, isBasicReport) ==
  IF row.type = "Section"
  THEN LET headerValue == IF row.Header.has /\ Len(row.Header.ColData) >= 1
                          THEN row.Header.ColData[1] ELSE Text("Section")
       IN IF isBasicReport THEN << <<headerValue, Empty>> >>
          ELSE << <<headerValue>> \o [i \in 1..(w - 1) |-> Empty] >>
  ELSE IF row.type = "Data"
  THEN << Exactly(row.ColData.ColData, IF isBasicReport THEN 2 ELSE w) >>
  ELSE IF row.Summary.has
  THEN LET d == row.Summary.ColData
       IN IF isBasicReport
          THEN << <<IF Len(d) > 0 THEN d[1] ELSE Text("Total"),
                    IF Len(d) > 1 THEN d[2] ELSE Empty>> >>
          ELSE << Exactly(d, w) >>
  ELSE <<>>

formatReportData(data) ==
  LET headers == ReportDataHeaders(data)
      rows == data.Rows.Row
  IN Table(headers,
           Concat([i \in DOMAIN rows |->
                     ReportDataRows(rows[i], Len(headers), data.basicName)]))

RECURSIVE processRow(_, _)
\* processRow of formatDataForSheet: a row with Rows.Row gives its header
\* row (when it has a Header) and the rows of its children; a row with
\* ColData or Summary gives one row; any other row gives none
processRow(row, w) ==
  IF row.Rows.has
  THEN (IF row.Header.has THEN << PadTo(row.Header.ColData, w) >> ELSE <<>>)
       \o Concat([i \in DOMAIN row.Rows.Row |-> processRow(row.Rows.Row[i], w)])
  ELSE IF row.ColData.has THEN << PadTo(row.ColData.ColData, w) >>
  ELSE IF row.Summary.has THEN << PadTo(row.Summary.ColData, w) >>
  ELSE <<>>

\* the report branch of formatDataForSheet (data.Rows && data.Columns); a
\* report without Columns falls through to the JSON fallback
formatDataForSheet(data) ==
  IF data.Columns.k = "absent"
  THEN Table(<<Text("Data")>>, << <<Text("JSON")>> >>)
  ELSE LET headers == IF data.Columns.k = "cols"
                      THEN [i \in 1..data.Columns.n |-> Text("ColTitle")]
                      ELSE <<Text("Account"), Text("Amount")>>
           top == data.Rows.Row
           rows == Concat([i \in DOMAIN top |-> processRow(top[i], Len(headers))])
           emptyRow == <<Text("No data available for this period")>>
                         \o [i \in 1..(Len(headers) - 1) |-> Empty]
       IN Table(headers, IF rows = <<>> THEN <<emptyRow>> ELSE rows)

FlatOff ==
  /\ reportData = Report(<<>>, 0, [k |-> "absent", n |-> 0], FALSE)
  /\ flatFn = "none"
  /\ flatResult = NoTable

-----------------------------------------------------------------------------
(* Query responses of the entity query formatter (Utils.js).               *)
(* A value is a scalar, null, an array or an object; an object is the      *)
(* sequence of its fields in insertion order.  The keys of QuickBooks      *)
(* entities have no '.', so header.split('.') gives back the keys a header *)
(* was joined from: a header is modelled by that sequence of keys.         *)

\* most records of a query response
MaxRecords == 2

Scalar == [t |-> "scalar", f |-> <<>>]

Null == [t |-> "null", f |-> <<>>]

Arr == [t |-> "array", f |-> <<>>]

Obj(fields) == [t |-> "object", f |-> fields]

\* the value of a property that is not there
Undefined == [t |-> "undefined", f |-> <<>>]

\* the empty string
EmptyString == [t |-> "empty", f |-> <<>>]

\* JSON.stringify(v)
Json(v) == [t |-> "json", f |-> <<v>>]

\* the field key: v of an object literal; nothing when v is Undefined
Field(key, v) == IF v = Undefined THEN <<>> ELSE <<[key |-> key, val |-> v]>>

\* the records of a query response: Id, BillAddr (an object with City) and
\* Line (an array of lines), each of them there or not
Entities ==
  {Field("Id", a) \o Field("BillAddr", b) \o Field("Line", c) :
     a \in {Scalar, Null, Undefined},
     b \in {Undefined, Null, Obj(<<>>), Obj(Field("City", Scalar)), Obj(Field("City", Arr))},
     c \in {Undefined, Arr, Scalar}}

\* a query response: QueryResponse without an array, or with the records
QueryInputs ==
  {[hasEntityKey |-> FALSE, entities |-> <<>>]}
    \cup {[hasEntityKey |-> TRUE, entities |-> es] :
            es \in UNION {[1..m -> Entities] : m \in 0..MaxRecords}}

\* value[part] for a value that is not null or undefined
Get(v, part) ==
  IF v.t = "object" /\ \E i \in DOMAIN v.f : v.f[i].key = part
  THEN v.f[CHOOSE i \in DOMAIN v.f : v.f[i].key = part].val
  ELSE Undefined

RECURSIVE extractHeaders(_, _)
\* extractHeaders(obj, prefix): a nested object that is no array is walked
\* with the prefix extended, an array is passed over, any other value
\* gives the header prefix + key
extractHeaders(fields, prefix) ==
  IF fields = <<>> THEN <<>>
  ELSE LET key == Head(fields).key
           v == Head(fields).val
           own == IF v.t = "object" THEN extractHeaders(v.f, Append(prefix, key))
                  ELSE IF v.t # "array" THEN <<Append(prefix, key)>>
                  ELSE <<>>
       IN own \o extractHeaders(Tail(fields), prefix)

RECURSIVE Walk(_, _)
\* the loop over header.split('.'): the value at the path, or '' as soon as
\* the value is falsy or has no such property
Walk(v, parts) ==
  IF parts = <<>> THEN v
  ELSE IF v.t \in {"null", "undefined"} \/ Get(v, Head(parts)) = Undefined
  THEN EmptyString
  ELSE Walk(Get(v, Head(parts)), Tail(parts))

\* QueryRow, but the row is made from the record's own headers
QueryRowOwnHeaders(entity, headers) ==
  LET own == extractHeaders(entity, <<>>)
  IN [j \in DOMAIN own |-> Walk(Obj(entity), own[j])]

\* headers.map(header => ...) for one record
QueryRow(entity, headers) ==
  [j \in DOMAIN headers |-> Walk(Obj(entity), headers[j])]

formatQueryData(data) ==
  IF ~data.hasEntityKey \/ data.entities = <<>>
  THEN Table(<<Text("No data found")>>, <<>>)
  ELSE LET headers == extractHeaders(data.entities[1], <<>>)
       IN Table(headers,
                [i \in DOMAIN data.entities |-> QueryRow(data.entities[i], headers)])

\* the query branch of formatDataForSheet (data.QueryResponse): the headers
\* are the keys of the first record, and a value of type 'object' (object,
\* array, null) is written as JSON
formatDataForSheetQuery(data) ==
  IF ~data.hasEntityKey
  THEN Table(<<Text("Data")>>, << <<Text("JSON")>> >>)
  ELSE IF data.entities = <<>>
  THEN Table(<<Text("No data found for this query")>>, <<>>)
  ELSE LET first == data.entities[1]
           headers == [j \in DOMAIN first |-> <<first[j].key>>]
           cell(entity, header) ==
             LET value == Get(Obj(entity), header[1])
             IN IF value.t \in {"object", "array", "null"} THEN Json(value) ELSE value
       IN Table(headers,
                [i \in DOMAIN data.entities |->
                   [j \in DOMAIN headers |-> cell(data.entities[i], headers[j])]])

QueryOff ==
  /\ queryData = [hasEntityKey |-> FALSE, entities |-> <<>>]
  /\ queryFn = "none"
  /\ queryResult = NoTable

-----------------------------------------------------------------------------
(* validateAndNormalizeIntent (OpenAIService.js).                          *)
(* A string field is "" when it is missing or empty; the objects filters   *)
(* and parameters are there (has) or not.                                  *)

\* intent.filters: {} when has, with the dates that are set
Filters(h, s, e) == [has |-> h, startDate |-> s, endDate |-> e]

\* intent.parameters
Parameters(h, n) == [has |-> h, name |-> n, range |-> "", usedDefaultDates |-> FALSE]

\* the objects JSON.parse(content) can give
RawIntents ==
  [type : {"", "unknown", "fetch", "create", "modify", "help"},
   action : {"", "report", "query", "createSheet", "addRow"},
   entity : {"", "ProfitAndLoss"},
   filters : {Filters(FALSE, "", "")}
               \cup {Filters(TRUE, s, e) : s \in {"", "2024-01-01"}, e \in {"", "2024-01-31"}},
   parameters : {Parameters(FALSE, ""), Parameters(TRUE, ""), Parameters(TRUE, "Budget")},
   qboApiCall : {"", "reports/ProfitAndLoss", "/reports/ProfitAndLoss"},
   sheetsApiCall : {"", "appendRow"},
   destination : {"", "Sheet1!A1"},
   explanation : {"", "given"},
   text : {""}]

\* Utilities.formatDate(day, 'GMT', 'yyyy-MM-dd') of a day built with
\* new Date(year, month, d), which is midnight of the script's time zone:
\* east of UTC that instant is still the day before in GMT
formatDate(day, east) ==
  IF ~east THEN day
  ELSE IF day = "firstDayOfMonth" THEN "lastDayOfPreviousMonth"
  ELSE "dayBeforeLastDayOfMonth"

\* the days of the current month, as formatted
DaysOfMonth == {"firstDayOfMonth", "dayBeforeLastDayOfMonth", "lastDayOfMonth"}

\* generateExplanation with an empty text in the default case
generateExplanationNoDefault(i) ==
  IF i.type = "fetch" /\ i.action = "report" THEN "Fetch the report"
  ELSE IF i.type = "fetch" /\ i.action \in {"query", "entity"} THEN "Fetch from QuickBooks"
  ELSE IF i.type = "create" /\ i.action = "createSheet" THEN "Create a new sheet"
  ELSE IF i.type = "modify" /\ i.action = "addRow" THEN "Add a new row"
  ELSE IF i.type = "modify" /\ i.action = "clearRange" THEN "Clear range"
  ELSE IF i.type = "custom" THEN "Execute a custom operation"
  ELSE IF i.type = "help" THEN "Provide help information"
  ELSE IF i.type = "diagnostic" THEN "Run diagnostic tests"
  ELSE ""

\* generateExplanation(intent): one template for each kind and action, and
\* 'Process the request: ' + intent.text for all the others
generateExplanation(i) ==
  IF i.type = "fetch" /\ i.action = "report" THEN "Fetch the report"
  ELSE IF i.type = "fetch" /\ i.action \in {"query", "entity"} THEN "Fetch from QuickBooks"
  ELSE IF i.type = "create" /\ i.action = "createSheet" THEN "Create a new sheet"
  ELSE IF i.type = "modify" /\ i.action = "addRow" THEN "Add a new row"
  ELSE IF i.type = "modify" /\ i.action = "clearRange" THEN "Clear range"
  ELSE IF i.type = "custom" THEN "Execute a custom operation"
  ELSE IF i.type = "help" THEN "Provide help information"
  ELSE IF i.type = "diagnostic" THEN "Run diagnostic tests"
  ELSE "Process the request"

\* the promotion to custom left out
PromoteCustomNever(i) == i

\* an intent with an API call and the type 'unknown' becomes custom
PromoteCustom(i) ==
  IF (i.qboApiCall # "" \/ i.sheetsApiCall # "") /\ i.type = "unknown"
  THEN [i EXCEPT !.type = "custom"]
  ELSE i

validateAndNormalizeIntent(raw, query, east) ==
  LET required ==
        [raw EXCEPT !.type = IF @ = "" THEN "unknown" ELSE @,
                    !.filters = IF @.has THEN @ ELSE Filters(TRUE, "", ""),
                    !.parameters = IF @.has THEN @ ELSE Parameters(TRUE, ""),
                    !.text = "originalQuery"]
      dated ==
        IF /\ required.type = "fetch"
           /\ required.action = "report"
           /\ required.filters.startDate = ""
           /\ required.filters.endDate = ""
        THEN [required EXCEPT !.filters.startDate = formatDate("firstDayOfMonth", east),
                              !.filters.endDate = formatDate("lastDayOfMonth", east),
                              !.parameters.usedDefaultDates = TRUE]
        ELSE required
      slashed ==
        [dated EXCEPT !.qboApiCall = IF @ = "reports/ProfitAndLoss"
                                     THEN "/reports/ProfitAndLoss" ELSE @]
      typed == PromoteCustom(slashed)
      placed ==
        IF typed.destination # "" /\ typed.sheetsApiCall = ""
        THEN [typed EXCEPT !.sheetsApiCall = "updateRange",
                           !.parameters.range = typed.destination]
        ELSE typed
      named ==
        IF placed.action = "createSheet" /\ placed.parameters.name = ""
        THEN [placed EXCEPT !.parameters.name =
                IF placed.entity # "" THEN placed.entity
                ELSE IF query THEN "fromQuery"
                ELSE "New Sheet"]
        ELSE placed
  IN [named EXCEPT !.explanation = IF @ = "" THEN generateExplanation(named) ELSE @]

NoIntent ==
  [type |-> "", action |-> "", entity |-> "", filters |-> Filters(FALSE, "", ""),
   parameters |-> Parameters(FALSE, ""), qboApiCall |-> "", sheetsApiCall |-> "",
   destination |-> "", explanation |-> "", text |-> ""]

IntentOff ==
  /\ rawIntent = NoIntent
  /\ originalQuery = FALSE
  /\ intent = NoIntent
  /\ intentPc = "off"

-----------------------------------------------------------------------------
(* The request pipeline: processQuery, testOpenAIConnection and            *)
(* processWithOpenAI, the two functions named runQBDiagnostic, logAction.  *)

\* how one logAction call ends: the row is appended; the log sheet could not
\* be created and the call returns without logging; appendRow throws, which
\* no try of logAction encloses
SinkOutcomes == {"logged", "skipped", "threw"}

\* a value a server function hands to its caller: a response object with its
\* type and message, or an exception that leaves the function
Response(t, m) == [k |-> "resp", type |-> t, message |-> m]
Raised(m) == [k |-> "err", type |-> "none", message |-> m]
NoResponse == [k |-> "none", type |-> "none", message |-> <<>>]

\* the types of the responses of executeIntent
ResponseTypes == {"text", "success", "error", "diagnostic", "help"}

\* what the request to the language model gives: the fetch throws; the body
\* is not JSON; the body has an error member; it has no choices; the content
\* of the first choice is not JSON; the content is the JSON value null; the
\* content is a JSON object
Replies == {"fetchThrows", "notJson", "apiError", "noChoices", "unparseable", "null", "object"}

\* the objects the content of a reply is parsed to
ParsedIntents ==
  {[NoIntent EXCEPT !.type = t, !.action = a, !.explanation = e] :
     t \in {"", "fetch", "help"}, a \in {"", "report"}, e \in {"", "given"}}

\* processWithOpenAI(query, ...): the key, the request, the two JSON.parse
\* calls and the normalizer; every exception after the key check is thrown
\* again as 'Failed to process with OpenAI: ' + message
processWithOpenAI(key, reply, parsed, east) ==
  LET failed(m) == [k |-> "err", intent |-> NoIntent,
                    message |-> <<"Failed to process with OpenAI">> \o m]
  IN IF ~key THEN [k |-> "err", intent |-> NoIntent, message |-> <<"OpenAI API key not configured">>]
     ELSE IF reply = "fetchThrows" THEN failed(<<"fetch">>)
     ELSE IF reply = "notJson" THEN failed(<<"SyntaxError">>)
     ELSE IF reply = "apiError" THEN failed(<<"OpenAI API error">>)
     ELSE IF reply = "noChoices" THEN failed(<<"TypeError">>)
     ELSE IF reply = "unparseable"
          THEN failed(<<"Failed to parse OpenAI response", "SyntaxError">>)
     ELSE IF reply = "null"
          THEN failed(<<"Failed to parse OpenAI response", "TypeError">>)
     ELSE [k |-> "intent", intent |-> validateAndNormalizeIntent(parsed, TRUE, east), message |-> <<>>]

\* the probes of the service's runQBDiagnostic, in the order of the code
Probes == <<"companyInfo", "customerQuery", "reportTest", "plTest">>

\* what callQuickBooksApi gives a probe: it throws; the parsed body has the
\* members the probe looks for; it is an object without them; it is null
ProbeOutcomes == {"throws", "valid", "malformed", "null"}

\* details[probe].success as the probe records it: the first two probes
\* store true unless something is thrown (a member of null is read), the
\* report probes store the value of response && Header && Rows && Rows.Row,
\* and each catch stores false; logAction is called by the report probes only
ProbeSuccess(probe, outcome, sink) ==
  IF outcome = "throws" THEN "false"
  ELSE IF probe \in {"companyInfo", "customerQuery"}
       THEN IF outcome = "null" THEN "false" ELSE "true"
  ELSE IF sink = "threw" THEN "false"
  ELSE IF outcome = "valid" THEN "rows"
  ELSE IF outcome = "null" THEN "null"
  ELSE "undefined"

\* a probe is caught by its own catch when something in it has thrown
ProbeThrew(probe, outcome, sink) ==
  \/ outcome = "throws"
  \/ probe \in {"companyInfo", "customerQuery"} /\ outcome = "null"
  \/ probe \in {"reportTest", "plTest"} /\ sink = "threw"

\* a probe without a try of its own: what it throws ends the sequence
AfterProbeUncaught(threw, next) == IF threw THEN "catch" ELSE next

\* where runQBDiagnostic goes on after a probe: each probe has its own
\* try/catch, so the next step runs whatever the probe did
AfterProbe(threw, next) == next

\* the values of success that count as true in a condition
Truthy == {"true", "rows"}

\* diagnosticResults: details.oauth is set or not, the probes recorded,
\* success and the kind of message
Results(o, s, m) == [type |-> "undefined", oauth |-> o, success |-> s, message |-> m]
NoResults == [type |-> "none", oauth |-> "undefined", success |-> FALSE, message |-> <<>>]

\* the body of runQBDiagnostic of Code.js after the call: the message is
\* built from results.details, which an object without details makes throw,
\* and the catch answers with the type 'error'
WrapperFormat(results) ==
  IF results.oauth = "undefined"
  THEN [type |-> "error", oauth |-> "undefined", success |-> FALSE,
        message |-> <<"Error running diagnostics">>]
  ELSE [type |-> "diagnostic", oauth |-> "undefined", success |-> results.success,
        message |-> <<"QuickBooks Diagnostic Results">> \o results.message]

\* no function of the pipeline has been called
PipeIdle ==
  /\ oai = "off"
  /\ oaiResult = [reply |-> "none", res |-> [k |-> "none", intent |-> NoIntent, message |-> <<>>]]
  /\ testResult = "none"
  /\ pq = "off"
  /\ pqError = "none"
  /\ pqResponse = "none"
  /\ pqResult = NoResponse
  /\ diag = "off"
  /\ probeLog = <<>>
  /\ diagResult = NoResults
  /\ wrap = "off"
  /\ depth = 0
  /\ wrapResult = NoResults

\* the pipeline at rest
PipeOff ==
  /\ loadOrder = "serviceLast"
  /\ PipeIdle

\* getBasicTransactionPLReport has built no row
LedgerOff ==
  /\ txnYield = <<>>
  /\ totalIncome = 0
  /\ totalExpenses = 0
  /\ reportRows = <<>>
  /\ reportName = "none"

\* the token of getOAuthToken's result: null, or the access token
NullToken == [k |-> "null", id |-> 0]

AccessToken(t) == [k |-> "token", id |-> t]

\* no value has been returned
NoAuthResult ==
  [op |-> "none", success |-> FALSE,
   value |-> [hasAccess |-> FALSE, authorizationUrl |-> FALSE, token |-> NullToken],
   before |-> <<>>]

\* the script properties are not followed, no function of Code.js was called
AuthOff ==
  /\ scriptProps = <<>>
  /\ loggedOut = FALSE
  /\ authResult = NoAuthResult

\* writeToSheet has returned nothing
NoWrite == [success |-> FALSE, message |-> "none", rowCount |-> 0, columnCount |-> 0]

\* writeToSheet has not been called
SheetIdle ==
  /\ ws = "off"
  /\ creationAttempts = 0
  /\ wsLog = <<>>
  /\ sheetOps = <<>>
  /\ wsResult = NoWrite

SheetOff ==
  /\ wsInput = <<>>
  /\ wsData = <<>>
  /\ clearFirst = TRUE
  /\ sheetExisted = FALSE
  /\ SheetIdle

\* the sidebar has just been opened
ChatOff ==
  /\ conversationHistory = <<>>
  /\ chat = "idle"
  /\ chatTurn = 0
  /\ messages = <<>>

\* the ledger, the token manager, the sheet writer and the sidebar at rest
RestOff ==
  /\ LedgerOff
  /\ AuthOff
  /\ SheetOff
  /\ ChatOff

\* the variables of the formatters and of the normalizer at rest
LibOff ==
  /\ DatesOff
  /\ FlatOff
  /\ QueryOff
  /\ IntentOff
  /\ PipeOff
  /\ RestOff

-----------------------------------------------------------------------------
(* Entry points and the specification *)

\* QuickBooksService.makeApiCall called directly
CallMakeApiCall ==
  /\ entry = "idle"
  /\ entry' = "makeApiCall"
  /\ MacEnter("top")
  /\ UNCHANGED <<tokenVars, grVars, chainVars>>
  /\ UNCHANGED libVars

\* QuickBooksService.getReport called directly
CallGetReport ==
  /\ entry = "idle"
  /\ entry' = "getReport"
  /\ \E fd \in BOOLEAN : GrEnter("top", fd)
  /\ UNCHANGED <<tokenVars, macVars, chainVars>>
  /\ UNCHANGED libVars

\* QuickBooksService.getProfitAndLossReport called: parameters are
\* formatted and getReport('ProfitAndLoss', formattedParams) is called
CallGetProfitAndLossReport ==
  /\ entry = "idle"
  /\ entry' = "getProfitAndLossReport"
  /\ pl' = "report"
  /\ invoked' = <<"direct">>
  /\ outcomes' = <<>>
  /\ plResult' = NoTree
  /\ \E fd \in BOOLEAN : GrEnter("pl", fd)
  /\ UNCHANGED <<tokenVars, macVars, altVars, basicVars>>
  /\ UNCHANGED libVars

\* the called function has returned or thrown: its frames are dropped.
\* Before the next call the token may expire or the user may reconnect.
Finish ==
  /\ \/ entry = "makeApiCall" /\ mac = "ret"
     \/ entry = "getReport" /\ gr = "ret"
     \/ entry = "getProfitAndLossReport" /\ pl = "ret"
  /\ entry' = "idle"
  /\ hasAccess' \in BOOLEAN
  /\ canRefresh' \in BOOLEAN
  /\ mac' = "off"
  /\ macCaller' = "top"
  /\ fetchCount' = 0
  /\ refreshLog' = <<>>
  /\ firstCode' = 0
  /\ sentTokens' = <<>>
  /\ macResult' = NoResult
  /\ gr' = "off"
  /\ grCaller' = "top"
  /\ retries' = 0
  /\ attemptLog' = <<>>
  /\ sleeps' = <<>>
  /\ futureDates' = FALSE
  /\ grResult' = NoReport
  /\ alt' = "off"
  /\ incomeAccounts' = "none"
  /\ altResult' = NoTree
  /\ basic' = "off"
  /\ incomeSuccess' = FALSE
  /\ expenseSuccess' = FALSE
  /\ queried' = <<>>
  /\ contributed' = <<>>
  /\ basicResult' = NoTree
  /\ pl' = "off"
  /\ invoked' = <<>>
  /\ outcomes' = <<>>
  /\ plResult' = NoTree
  /\ UNCHANGED <<accessToken, companyIdSet>>
  /\ UNCHANGED libVars

\* no server function is running
FramesOff ==
  /\ entry = "idle"
  /\ mac = "off"
  /\ macCaller = "top"
  /\ fetchCount = 0
  /\ refreshLog = <<>>
  /\ firstCode = 0
  /\ sentTokens = <<>>
  /\ macResult = NoResult
  /\ gr = "off"
  /\ grCaller = "top"
  /\ retries = 0
  /\ attemptLog = <<>>
  /\ sleeps = <<>>
  /\ futureDates = FALSE
  /\ grResult = NoReport
  /\ alt = "off"
  /\ incomeAccounts = "none"
  /\ altResult = NoTree
  /\ basic = "off"
  /\ incomeSuccess = FALSE
  /\ expenseSuccess = FALSE
  /\ queried = <<>>
  /\ contributed = <<>>
  /\ basicResult = NoTree
  /\ pl = "off"
  /\ invoked = <<>>
  /\ outcomes = <<>>
  /\ plResult = NoTree

\* the service between two calls, connected to a company
ServiceIdle ==
  /\ hasAccess = TRUE
  /\ canRefresh = TRUE
  /\ accessToken = 0
  /\ companyIdSet = TRUE
  /\ FramesOff

Init ==
  /\ hasAccess \in BOOLEAN
  /\ canRefresh \in BOOLEAN
  /\ accessToken = 0
  /\ companyIdSet \in BOOLEAN
  /\ FramesOff
  /\ LibOff

Next ==
  \/ CallMakeApiCall
  \/ CallGetReport
  \/ CallGetProfitAndLossReport
  \/ MacEnsureAccess
  \/ MacFetch
  \/ MacRetry
  \/ GrStart
  \/ GrAttempt
  \/ GrAfterAttempt
  \/ AltAfterIncome
  \/ AltAfterExpense
  \/ BasicAfterQuery
  \/ PLAfterReport
  \/ PLAfterAlt
  \/ PLAfterBasic
  \/ Finish

Spec == Init /\ [][Next]_vars

-----------------------------------------------------------------------------
(* The date handling as a specification of its own *)

\* getProfitAndLossReport: both dates go through toISOString when present,
\* and formattedParams takes the dates that are present
PLFormatDates ==
  /\ datesPc = "pl"
  /\ LET p == [start_date |-> IF params.start_date.kind = "absent" THEN Absent
                              ELSE toISOString(params.start_date, tzEast),
               end_date |-> IF params.end_date.kind = "absent" THEN Absent
                            ELSE toISOString(params.end_date, tzEast)]
     IN /\ params' = p
        /\ formattedParams' = p
  /\ datesPc' = "getReport"
  /\ UNCHANGED <<rawParams, tzEast, today, usedDates, exceptDates>>

\* getReport: a missing start_date becomes the first day of the year, a
\* missing end_date becomes today; the request is sent with these dates
GrDefaultDates ==
  /\ datesPc = "getReport"
  /\ LET p == [start_date |-> IF formattedParams.start_date.kind = "absent"
                              THEN firstDayOfYear(tzEast)
                              ELSE formattedParams.start_date,
               end_date |-> IF formattedParams.end_date.kind = "absent"
                            THEN Iso(today)
                            ELSE formattedParams.end_date]
     IN /\ formattedParams' = p
        /\ usedDates' = Append(usedDates, [by |-> "direct"] @@ p)
  /\ datesPc' \in {"alternative", "done"}
  /\ UNCHANGED <<rawParams, params, tzEast, today, exceptDates>>

\* getAlternativeProfitAndLossReport(params): StartPeriod and EndPeriod of
\* the header are params.start_date and params.end_date
AltDates ==
  /\ datesPc = "alternative"
  /\ usedDates' = Append(usedDates, [by |-> "alternative"] @@ params)
  /\ datesPc' \in {"basic", "done"}
  /\ UNCHANGED <<rawParams, params, formattedParams, tzEast, today, exceptDates>>

\* getBasicTransactionPLReport(params): every query has
\* TxnDate >= params.start_date AND TxnDate <= params.end_date
BasicDates ==
  /\ datesPc = "basic"
  /\ usedDates' = Append(usedDates, [by |-> "basic"] @@ params)
  /\ datesPc' = "done"
  /\ UNCHANGED <<rawParams, params, formattedParams, tzEast, today, exceptDates>>

\* getProfitAndLossReport is called with any pair of date inputs, in any
\* script time zone, on any day of the year
DatesInit ==
  /\ ServiceIdle
  /\ RestOff
  /\ FlatOff
  /\ QueryOff
  /\ IntentOff
  /\ PipeOff
  /\ rawParams \in [start_date : DateInputs, end_date : DateInputs]
  /\ params = rawParams
  /\ formattedParams = [start_date |-> Absent, end_date |-> Absent]
  /\ tzEast \in BOOLEAN
  /\ today \in 1..YearDays
  /\ datesPc = "pl"
  /\ usedDates = <<>>

DatesNext ==
  \/ PLFormatDates
  \/ GrDefaultDates
  \/ AltDates
  \/ BasicDates

SpecDates == DatesInit /\ [][DatesNext]_vars

-----------------------------------------------------------------------------
(* The report flattener as a specification of its own *)

\* most ColData entries of a row: one more than the most columns
MaxCells == MaxCols + 1

\* formatReportData(reportData) is called
CallFormatReportData ==
  /\ flatFn = "none"
  /\ flatFn' = "formatReportData"
  /\ flatResult' = formatReportData(reportData)
  /\ UNCHANGED <<reportData, exceptFlat>>

\* formatDataForSheet(reportData) is called
CallFormatDataForSheet ==
  /\ flatFn = "none"
  /\ flatFn' = "formatDataForSheet"
  /\ flatResult' = formatDataForSheet(reportData)
  /\ UNCHANGED <<reportData, exceptFlat>>

\* a report of any shape is about to be flattened
FlatInit ==
  /\ ServiceIdle
  /\ RestOff
  /\ DatesOff
  /\ QueryOff
  /\ IntentOff
  /\ PipeOff
  /\ \E shs \in TopShapes, c \in 0..MaxCells, cols \in ColumnsInputs, b \in BOOLEAN :
       reportData = Report(shs, c, cols, b)
  /\ flatFn = "none"
  /\ flatResult = NoTable

FlatNext ==
  \/ CallFormatReportData
  \/ CallFormatDataForSheet

SpecFlat == FlatInit /\ [][FlatNext]_vars

-----------------------------------------------------------------------------
(* The entity query formatter as a specification of its own *)

\* formatQueryData(queryData) is called
CallFormatQueryData ==
  /\ queryFn = "none"
  /\ queryFn' = "formatQueryData"
  /\ queryResult' = formatQueryData(queryData)
  /\ UNCHANGED <<queryData, exceptQuery>>

\* formatDataForSheet(queryData) is called
CallFormatDataForSheetQuery ==
  /\ queryFn = "none"
  /\ queryFn' = "formatDataForSheet"
  /\ queryResult' = formatDataForSheetQuery(queryData)
  /\ UNCHANGED <<queryData, exceptQuery>>

\* a query response is about to be formatted
QueryInit ==
  /\ ServiceIdle
  /\ RestOff
  /\ DatesOff
  /\ FlatOff
  /\ IntentOff
  /\ PipeOff
  /\ queryData \in QueryInputs
  /\ queryFn = "none"
  /\ queryResult = NoTable

QueryNext ==
  \/ CallFormatQueryData
  \/ CallFormatDataForSheetQuery

SpecQuery == QueryInit /\ [][QueryNext]_vars

-----------------------------------------------------------------------------
(* The intent normalizer as a specification of its own *)

\* validateAndNormalizeIntent(parsedIntent, query) is called
CallValidateAndNormalizeIntent ==
  /\ intentPc = "parsed"
  /\ intent' = validateAndNormalizeIntent(rawIntent, originalQuery, tzEast)
  /\ intentPc' = "normalized"
  /\ UNCHANGED <<rawIntent, originalQuery, exceptIntent>>

\* validateAndNormalizeIntent is called on the intent it has returned, with
\* the same query and at the same time
CallValidateAndNormalizeIntentAgain ==
  /\ intentPc = "normalized"
  /\ intent' = validateAndNormalizeIntent(intent, originalQuery, tzEast)
  /\ intentPc' = "renormalized"
  /\ UNCHANGED <<rawIntent, originalQuery, exceptIntent>>

\* the language model has answered with any intent object; the text of
\* the user names a sheet or not; the script runs in any time zone
IntentInit ==
  /\ ServiceIdle
  /\ RestOff
  /\ rawParams = [start_date |-> Absent, end_date |-> Absent]
  /\ params = rawParams
  /\ formattedParams = rawParams
  /\ tzEast \in BOOLEAN
  /\ today = 1
  /\ datesPc = "off"
  /\ usedDates = <<>>
  /\ FlatOff
  /\ QueryOff
  /\ PipeOff
  /\ rawIntent \in RawIntents
  /\ originalQuery \in BOOLEAN
  /\ intent = rawIntent
  /\ intentPc = "parsed"

IntentNext ==
  \/ CallValidateAndNormalizeIntent
  \/ CallValidateAndNormalizeIntentAgain

SpecIntent == IntentInit /\ [][IntentNext]_vars

-----------------------------------------------------------------------------
(* The request pipeline as a specification of its own *)

\* testOpenAIConnection(): without a key it answers at once, with one it
\* calls processWithOpenAI
TestOpenAIConnection ==
  /\ PipeIdle
  /\ \E key \in BOOLEAN :
       IF key THEN oai' = "entry" /\ UNCHANGED testResult
       ELSE oai' = "off" /\ testResult' = "not configured"
  /\ UNCHANGED <<oaiResult, loadOrder, pqVars, diagVars, wrapVars, exceptPipe>>

\* processWithOpenAI(query, [], apiCalls) runs to its return or throw
ProcessWithOpenAI ==
  /\ oai = "entry"
  /\ \E key \in BOOLEAN, reply \in Replies, parsed \in ParsedIntents :
       oaiResult' = [reply |-> IF key THEN reply ELSE "none",
                     res |-> processWithOpenAI(key, reply, parsed, tzEast)]
  /\ oai' = "ret"
  /\ UNCHANGED <<testResult, loadOrder, pqVars, diagVars, wrapVars, exceptPipe>>

\* testOpenAIConnection after the call: an intent is a success, the catch
\* answers with success false
TestOpenAIReturn ==
  /\ oai = "ret"
  /\ testResult' = IF oaiResult.res.k = "intent" THEN "successful" ELSE "failed with error"
  /\ oai' = "off"
  /\ UNCHANGED <<oaiResult, loadOrder, pqVars, diagVars, wrapVars, exceptPipe>>

\* processQuery(query, history) up to logAction('User Query', ...)
ProcessQuery ==
  /\ PipeIdle
  /\ \E sink \in SinkOutcomes :
       IF sink = "threw"
       THEN pq' = "catch" /\ pqError' = "logAction"
       ELSE pq' = "analyze" /\ UNCHANGED pqError
  /\ UNCHANGED <<pqResponse, pqResult, loadOrder, oaiVars, diagVars, wrapVars, exceptPipe>>

\* analyzeQueryIntent(query, history) returns an intent or throws
PqAnalyze ==
  /\ pq = "analyze"
  /\ \E returns \in BOOLEAN :
       IF returns
       THEN pq' = "execute" /\ UNCHANGED pqError
       ELSE pq' = "catch" /\ pqError' = "analyzeQueryIntent"
  /\ UNCHANGED <<pqResponse, pqResult, loadOrder, oaiVars, diagVars, wrapVars, exceptPipe>>

\* executeIntent(intent) returns a typed response or throws
PqExecute ==
  /\ pq = "execute"
  /\ \/ \E t \in ResponseTypes :
          /\ pqResponse' = t
          /\ pq' = "logResponse"
          /\ UNCHANGED pqError
     \/ /\ pq' = "catch"
        /\ pqError' = "executeIntent"
        /\ UNCHANGED pqResponse
  /\ UNCHANGED <<pqResult, loadOrder, oaiVars, diagVars, wrapVars, exceptPipe>>

\* logAction('System Response', ...) and return response
PqLogResponse ==
  /\ pq = "logResponse"
  /\ \E sink \in SinkOutcomes :
       IF sink = "threw"
       THEN pq' = "catch" /\ pqError' = "logAction" /\ UNCHANGED pqResult
       ELSE pq' = "ret" /\ pqResult' = Response(pqResponse, <<>>) /\ UNCHANGED pqError
  /\ UNCHANGED <<pqResponse, loadOrder, oaiVars, diagVars, wrapVars, exceptPipe>>

\* the catch block: logAction('Error', ...), then the response of type error
PqCatch ==
  /\ pq = "catch"
  /\ \E sink \in SinkOutcomes :
       pqResult' = IF sink = "threw"
                   THEN Raised(<<"logAction">>)
                   ELSE Response("error", <<"Sorry, I encountered an error", pqError>>)
  /\ pq' = "ret"
  /\ UNCHANGED <<pqError, pqResponse, loadOrder, oaiVars, diagVars, wrapVars, exceptPipe>>

\* a caller invokes the global name runQBDiagnostic: it holds the function
\* of the file that was loaded last
RunQBDiagnostic ==
  /\ PipeIdle
  /\ IF loadOrder = "serviceLast"
     THEN /\ wrap' = "service"
          /\ diag' = "oauth"
          /\ diagResult' = Results("undefined", FALSE, <<>>)
          /\ UNCHANGED <<depth, wrapResult, probeLog>>
     ELSE /\ wrap' = "call"
          /\ depth' = 1
          /\ UNCHANGED <<wrapResult, diagVars>>
  /\ UNCHANGED <<loadOrder, oaiVars, pqVars, exceptPipe>>

\* QuickBooksService.runDiagnostic(): the service's function in any order
ServiceRunDiagnostic ==
  /\ PipeIdle
  /\ diag' = "oauth"
  /\ diagResult' = Results("undefined", FALSE, <<>>)
  /\ UNCHANGED <<probeLog, loadOrder, oaiVars, pqVars, wrapVars, exceptPipe>>

\* steps 1 and 2: the OAuth service, hasAccess, the company id
DiagOAuth ==
  /\ diag = "oauth"
  /\ \E o \in {"throws", "noAccess", "noCompanyId", "ok"} :
       /\ diag' = IF o = "throws" THEN "catch"
                  ELSE IF o = "ok" THEN Probes[1]
                  ELSE "ret"
       /\ diagResult' = IF o = "throws" THEN diagResult
                        ELSE IF o = "noAccess" THEN Results("set", FALSE, <<"OAuth connection failed">>)
                        ELSE IF o = "noCompanyId" THEN Results("set", FALSE, <<"Company ID not set">>)
                        ELSE Results("set", FALSE, <<>>)
  /\ UNCHANGED <<probeLog, loadOrder, oaiVars, pqVars, wrapVars, exceptPipe>>

\* steps 3 to 6: one probe, with its own try/catch
DiagProbe ==
  /\ \E i \in DOMAIN Probes :
       /\ diag = Probes[i]
       /\ \E outcome \in ProbeOutcomes,
             sink \in IF i >= 3 THEN SinkOutcomes ELSE {"none"} :
            LET logged == IF outcome = "throws" THEN "none" ELSE sink
            IN /\ probeLog' = Append(probeLog,
                                [probe |-> Probes[i], outcome |-> outcome, sink |-> logged,
                                 success |-> ProbeSuccess(Probes[i], outcome, logged)])
               /\ diag' = AfterProbe(ProbeThrew(Probes[i], outcome, logged),
                                     IF i < Len(Probes) THEN Probes[i + 1] ELSE "summary")
  /\ UNCHANGED <<diagResult, loadOrder, oaiVars, pqVars, wrapVars, exceptPipe>>

\* overall success and the message
DiagSummary ==
  /\ diag = "summary"
  /\ LET ok(i) == i \in DOMAIN probeLog /\ probeLog[i].success \in Truthy
         success == ok(1) /\ ok(2)
     IN diagResult' =
          Results("set", success,
                  IF success
                  THEN <<"connection is working",
                         IF ok(3) THEN "Report API is accessible" ELSE "Report API access failed",
                         IF ok(4) THEN "P&L reports are accessible" ELSE "P&L reports may not work">>
                  ELSE <<"connection test failed">>)
  /\ diag' = "ret"
  /\ UNCHANGED <<probeLog, loadOrder, oaiVars, pqVars, wrapVars, exceptPipe>>

\* the outer catch: the message of the exception, and the object is returned
DiagCatch ==
  /\ diag = "catch"
  /\ diagResult' = [diagResult EXCEPT !.message = <<"Diagnostic test failed">>]
  /\ diag' = "ret"
  /\ UNCHANGED <<probeLog, loadOrder, oaiVars, pqVars, wrapVars, exceptPipe>>

\* the service's function, called through the global name, returns to the
\* caller
GlobalReturn ==
  /\ wrap = "service"
  /\ diag = "ret"
  /\ wrapResult' = diagResult
  /\ wrap' = "ret"
  /\ UNCHANGED <<depth, loadOrder, oaiVars, pqVars, diagVars, exceptPipe>>

\* const results = runQBDiagnostic() in the function of Code.js: the name is
\* the function itself; when the stack is full the call throws RangeError
\* and the catch of this frame returns the response of type error
WrapperCall ==
  /\ wrap = "call"
  /\ IF depth < StackDepth
     THEN /\ depth' = depth + 1
          /\ UNCHANGED <<wrap, wrapResult>>
     ELSE /\ depth' = depth - 1
          /\ wrapResult' = [type |-> "error", oauth |-> "undefined", success |-> FALSE,
                            message |-> <<"Error running diagnostics">>]
          /\ wrap' = IF depth = 1 THEN "ret" ELSE "unwind"
  /\ UNCHANGED <<loadOrder, oaiVars, pqVars, diagVars, exceptPipe>>

\* a frame of the function of Code.js gets the value of the frame above it
\* as results, formats it and returns
WrapperReturn ==
  /\ wrap = "unwind"
  /\ wrapResult' = WrapperFormat(wrapResult)
  /\ depth' = depth - 1
  /\ wrap' = IF depth = 1 THEN "ret" ELSE "unwind"
  /\ UNCHANGED <<loadOrder, oaiVars, pqVars, diagVars, exceptPipe>>

\* the files are loaded in either order; one server function is called
PipeInit ==
  /\ ServiceIdle
  /\ RestOff
  /\ DatesOff
  /\ FlatOff
  /\ QueryOff
  /\ IntentOff
  /\ loadOrder \in {"codeLast", "serviceLast"}
  /\ PipeIdle

PipeNext ==
  \/ TestOpenAIConnection
  \/ ProcessWithOpenAI
  \/ TestOpenAIReturn
  \/ ProcessQuery
  \/ PqAnalyze
  \/ PqExecute
  \/ PqLogResponse
  \/ PqCatch
  \/ RunQBDiagnostic
  \/ ServiceRunDiagnostic
  \/ DiagOAuth
  \/ DiagProbe
  \/ DiagSummary
  \/ DiagCatch
  \/ GlobalReturn
  \/ WrapperCall
  \/ WrapperReturn

SpecPipeline == PipeInit /\ [][PipeNext]_vars



-----------------------------------------------------------------------------
(* getBasicTransactionPLReport with the amounts of its records and the     *)
(* rows it pushes.  queryQuickBooks is taken by its outcome, and logAction *)
(* may throw.                                                              *)

\* TotalAmt of a record in cents; 0 is a record without an amount, which the
\* test of invoice.TotalAmt skips
Amounts == {0, 1, 2}

\* QueryResponse.<Type>: the records of one type
RecordLists == UNION {[1..n -> Amounts] : n \in 0..MaxRecords}

\* what queryQuickBooks does for one transaction type: it throws, it returns
\* a response without the member of the type, or it returns records
TxnAnswers ==
  {[k |-> "threw", recs |-> <<>>], [k |-> "none", recs |-> <<>>]}
    \cup {[k |-> "records", recs |-> r] : r \in RecordLists}

RECURSIVE SumAmt(_)
\* the forEach over the records: parseFloat(TotalAmt) added up
SumAmt(recs) == IF recs = <<>> THEN 0 ELSE recs[1] + SumAmt(Tail(recs))

\* the first ColData value of the row pushed for a type that yielded data
RowLabel(t) ==
  CASE t = "Invoice" -> "Invoice Revenue"
    [] t = "SalesReceipt" -> "Sales Revenue"
    [] t = "Deposit" -> "Deposits"
    [] t = "Bill" -> "Bills"
    [] t = "Purchase" -> "Purchases"
    [] OTHER -> "Expenses"

SectionRow(label) == [type |-> "Section", label |-> label]

\* a row of two cells; the amount is x.toFixed(2), held in cents
DataRow(label, amount) == [type |-> "Data", label |-> label, value |-> amount]

\* the row that closes the income section
IncomeSummary(success, total) ==
  IF ~success THEN DataRow("No income data available", 0)
  ELSE DataRow("Total Income", total)

\* the row that closes the expense section
ExpenseSummary(success, total) ==
  IF ~success THEN DataRow("No expense data available", 0)
  ELSE DataRow("Total Expenses", total)

\* the totals added where the code subtracts them
netIncomeAdded(income, expenses) == income + expenses

\* (totalIncome - totalExpenses)
netIncome(income, expenses) == income - expenses

\* Rows.Row of the report the outer catch returns
MinimalRows ==
  <<SectionRow("Data Unavailable"),
    DataRow("Unable to access transaction data", ""),
    DataRow("Please check your QuickBooks permissions", "")>>

\* the call: logAction, the empty result, the Income section, the Invoice
\* query.  logAction is called before the try, so its exception leaves
LedgerEnter ==
  /\ basic = "off"
  /\ reportName = "none"
  /\ \E sink \in SinkOutcomes :
       IF sink = "threw"
       THEN /\ basic' = "ret"
            /\ reportName' = "thrown"
            /\ UNCHANGED <<queried, reportRows>>
       ELSE /\ basic' = "query"
            /\ queried' = <<"Invoice">>
            /\ reportRows' = <<SectionRow("Income")>>
            /\ UNCHANGED reportName
  /\ UNCHANGED <<incomeSuccess, expenseSuccess, contributed, basicResult>>
  /\ UNCHANGED <<txnYield, totalIncome, totalExpenses>>
  /\ UNCHANGED <<tokenVars, entry, macVars, grVars, altVars, plVars>>
  /\ UNCHANGED exceptLedger

\* one transaction query is over.  Records of the type are added up, their
\* row is pushed and the flag of the section is set; a failure is logged.
\* After the last type of a section its summary row is pushed, and after the
\* expense section the Net Income rows
LedgerAnswer ==
  /\ basic = "query"
  /\ \E a \in TxnAnswers, sink \in SinkOutcomes :
       /\ a.k # "threw" => sink = "logged"
       /\ IF a.k = "threw" /\ sink = "threw"
          THEN /\ basic' = "catch"
               /\ UNCHANGED <<incomeSuccess, expenseSuccess, queried, contributed,
                              basicResult, ledgerVars>>
          ELSE LET t == queried[Len(queried)]
                   found == a.k = "records"
                   sum == SumAmt(a.recs)
                   inc == incomeSuccess \/ (t \in IncomeTypes /\ found)
                   exp == expenseSuccess \/ (t \notin IncomeTypes /\ found)
                   next == NextType(t, inc, exp)
                   ti == IF found /\ t \in IncomeTypes
                         THEN totalIncome + sum ELSE totalIncome
                   te == IF found /\ t \notin IncomeTypes
                         THEN totalExpenses + sum ELSE totalExpenses
                   rows1 == IF found
                            THEN Append(reportRows, DataRow(RowLabel(t), sum))
                            ELSE reportRows
                   rows2 == IF t \in IncomeTypes /\ next \notin IncomeTypes
                            THEN rows1 \o <<IncomeSummary(inc, ti),
                                            SectionRow("Expenses")>>
                            ELSE rows1
               IN /\ incomeSuccess' = inc
                  /\ expenseSuccess' = exp
                  /\ totalIncome' = ti
                  /\ totalExpenses' = te
                  /\ contributed' = IF found THEN Append(contributed, t) ELSE contributed
                  /\ txnYield' = IF found THEN Append(txnYield, a.recs) ELSE txnYield
                  /\ IF next = "done"
                     THEN /\ basic' = "ret"
                          /\ reportName' = "Profit and Loss (Basic)"
                          /\ reportRows' = rows2 \o
                               <<ExpenseSummary(exp, te),
                                 SectionRow("Net Income"),
                                 DataRow("Net Income", netIncome(ti, te))>>
                          /\ basicResult' = Tree("basic", TRUE, TRUE,
                               (IF inc THEN 1 ELSE 0) + (IF exp THEN 1 ELSE 0))
                          /\ UNCHANGED queried
                     ELSE /\ queried' = Append(queried, next)
                          /\ reportRows' = rows2
                          /\ UNCHANGED <<basic, basicResult, reportName>>
  /\ UNCHANGED <<tokenVars, entry, macVars, grVars, altVars, plVars>>
  /\ UNCHANGED exceptLedger

\* the outer catch, entered when logAction threw in the catch of a query: it
\* logs, and returns the report named 'Profit and Loss (Minimal)'
LedgerCatch ==
  /\ basic = "catch"
  /\ \E sink \in SinkOutcomes :
       /\ basic' = "ret"
       /\ IF sink = "threw"
          THEN /\ reportName' = "thrown"
               /\ UNCHANGED <<reportRows, basicResult>>
          ELSE /\ reportName' = "Profit and Loss (Minimal)"
               /\ reportRows' = MinimalRows
               /\ basicResult' = Tree("basic", TRUE, TRUE, 0)
  /\ UNCHANGED <<incomeSuccess, expenseSuccess, queried, contributed>>
  /\ UNCHANGED <<txnYield, totalIncome, totalExpenses>>
  /\ UNCHANGED <<tokenVars, entry, macVars, grVars, altVars, plVars>>
  /\ UNCHANGED exceptLedger

LedgerInit ==
  /\ ServiceIdle
  /\ LibOff

LedgerNext ==
  \/ LedgerEnter
  \/ LedgerAnswer
  \/ LedgerCatch

SpecLedger == LedgerInit /\ [][LedgerNext]_vars

-----------------------------------------------------------------------------
(* The server functions of Code.js that read or destroy the token, with    *)
(* makeApiCall called between them.  The token of the OAuth2 service is    *)
(* the user property 'oauth2.quickbooks'; hasAccess and canRefresh say     *)
(* what the service finds there.  logAction returns normally inside        *)
(* makeApiCall.                                                            *)

CredentialKeys == {"QBO_CLIENT_ID", "QBO_CLIENT_SECRET", "QBO_COMPANY_ID"}

\* the script properties a session can start with: each credential is not
\* stored, stored empty or stored with its value; the OpenAI key is stored
\* or not
StoredProps ==
  {p \in UNION {[ks -> {"", "id", "secret", "realm", "sk"}] :
                  ks \in SUBSET (CredentialKeys \cup {"OPENAI_API_KEY"})} :
     \A k \in DOMAIN p :
       p[k] \in (CASE k = "QBO_CLIENT_ID" -> {"", "id"}
                   [] k = "QBO_CLIENT_SECRET" -> {"", "secret"}
                   [] k = "QBO_COMPANY_ID" -> {"", "realm"}
                   [] OTHER -> {"sk"})}

\* scriptProperties.getProperty(key) is truthy
HasProperty(p, key) == key \in DOMAIN p /\ p[key] # ""

\* the value getOAuthToken returns
getOAuthToken(access, t) ==
  [hasAccess |-> access,
   authorizationUrl |-> ~access,
   token |-> IF access THEN AccessToken(t) ELSE NullToken]

AuthReturn(op, ok) ==
  [op |-> op, success |-> ok, value |-> NoAuthResult.value, before |-> <<>>]

\* a reset that removes the access token and leaves the refresh token
serviceResetKeepsRefresh == [hasAccess |-> FALSE, canRefresh |-> TRUE]

\* service.reset(): the stored token is removed, the refresh token with it
serviceReset == [hasAccess |-> FALSE, canRefresh |-> FALSE]

\* the restore of resetAllAuth, with the OpenAI key put back as well
restoreCredentialsAndKey(p) ==
  [k \in {c \in DOMAIN p : p[c] # ""} |-> p[k]]

\* deleteAllProperties, then setProperty for each credential that was truthy
restoreCredentials(p) ==
  [k \in {c \in CredentialKeys : HasProperty(p, c)} |-> p[k]]

\* getOAuthToken()
GetOAuthToken ==
  /\ entry = "idle"
  /\ authResult' = [op |-> "getOAuthToken", success |-> TRUE,
                    value |-> getOAuthToken(hasAccess, accessToken),
                    before |-> <<>>]
  /\ UNCHANGED <<scriptProps, loggedOut>>
  /\ UNCHANGED serviceVars
  /\ UNCHANGED exceptAuth

\* authCallback(request): handleCallback stores a token or does not
AuthCallback ==
  /\ entry = "idle"
  /\ \E authorized \in BOOLEAN :
       /\ authResult' = AuthReturn("authCallback", authorized)
       /\ IF authorized
          THEN /\ hasAccess' = TRUE
               /\ canRefresh' = TRUE
               /\ accessToken' = NewToken(accessToken)
               /\ loggedOut' = FALSE
          ELSE UNCHANGED <<hasAccess, canRefresh, accessToken, loggedOut>>
  /\ UNCHANGED <<companyIdSet, entry, macVars, grVars, chainVars, scriptProps>>
  /\ UNCHANGED exceptAuth

\* time passes: the access token held is past its expiry
TokenExpires ==
  /\ entry = "idle"
  /\ hasAccess
  /\ hasAccess' = FALSE
  /\ UNCHANGED <<canRefresh, accessToken, companyIdSet, entry, macVars, grVars, chainVars>>
  /\ UNCHANGED authVars
  /\ UNCHANGED exceptAuth

\* logoutQuickBooks(): reset and deleteProperty, or an exception of the
\* property store that the catch turns into success false
LogoutQuickBooks ==
  /\ entry = "idle"
  /\ \E threw \in BOOLEAN :
       /\ authResult' = AuthReturn("logoutQuickBooks", ~threw)
       /\ IF threw
          THEN UNCHANGED <<hasAccess, canRefresh, loggedOut>>
          ELSE /\ hasAccess' = serviceReset.hasAccess
               /\ canRefresh' = serviceReset.canRefresh
               /\ loggedOut' = TRUE
  /\ UNCHANGED <<accessToken, companyIdSet, entry, macVars, grVars, chainVars, scriptProps>>
  /\ UNCHANGED exceptAuth

\* resetAllAuth(): the user properties of the token are deleted, the service
\* is reset, the script properties are deleted and the credentials put back,
\* the reset is logged.  An exception at any of these steps ends in the
\* catch, with what was done before it kept
ResetAllAuth ==
  /\ entry = "idle"
  /\ \E failed \in {"none", "store", "reset", "log"} :
       /\ authResult' = [AuthReturn("resetAllAuth", failed = "none")
                           EXCEPT !.before = scriptProps]
       /\ IF failed = "store"
          THEN UNCHANGED <<hasAccess, canRefresh>>
          ELSE /\ hasAccess' = serviceReset.hasAccess
               /\ canRefresh' = serviceReset.canRefresh
       /\ IF failed \in {"store", "reset"}
          THEN UNCHANGED <<scriptProps, companyIdSet>>
          ELSE /\ scriptProps' = restoreCredentials(scriptProps)
               /\ companyIdSet' = HasProperty(restoreCredentials(scriptProps),
                                               "QBO_COMPANY_ID")
       /\ loggedOut' = IF failed = "none" THEN TRUE ELSE loggedOut
  /\ UNCHANGED <<accessToken, entry, macVars, grVars, chainVars>>
  /\ UNCHANGED exceptAuth

\* makeApiCall is called from the top
AuthMakeApiCall ==
  /\ entry = "idle"
  /\ entry' = "makeApiCall"
  /\ MacEnter("top")
  /\ authResult' = NoAuthResult
  /\ UNCHANGED <<tokenVars, grVars, chainVars, scriptProps, loggedOut>>
  /\ UNCHANGED exceptAuth

\* the caller of makeApiCall has its response or its exception
AuthMakeApiCallDone ==
  /\ entry = "makeApiCall"
  /\ mac = "ret"
  /\ entry' = "idle"
  /\ MacExit
  /\ UNCHANGED <<tokenVars, grVars, chainVars>>
  /\ UNCHANGED libVars

\* any stored properties; connected, expired or never authorized
AuthInit ==
  /\ hasAccess \in BOOLEAN
  /\ canRefresh \in BOOLEAN
  /\ hasAccess => canRefresh
  /\ accessToken = 0
  /\ scriptProps \in StoredProps
  /\ companyIdSet = HasProperty(scriptProps, "QBO_COMPANY_ID")
  /\ FramesOff
  /\ DatesOff
  /\ FlatOff
  /\ QueryOff
  /\ IntentOff
  /\ PipeOff
  /\ LedgerOff
  /\ SheetOff
  /\ ChatOff
  /\ loggedOut = FALSE
  /\ authResult = NoAuthResult

AuthNext ==
  \/ GetOAuthToken
  \/ AuthCallback
  \/ TokenExpires
  \/ LogoutQuickBooks
  \/ ResetAllAuth
  \/ AuthMakeApiCall
  \/ MacEnsureAccess
  \/ MacFetch
  \/ MacRetry
  \/ AuthMakeApiCallDone

SpecAuth == AuthInit /\ [][AuthNext]_vars

-----------------------------------------------------------------------------
(* writeToSheet (Utils.js).  The calls on the spreadsheet are points where *)
(* the environment picks the outcome; getOrCreateSheet returns a sheet or  *)
(* throws.                                                                 *)

\* the tables a caller passes: no row, or a header row and up to MaxRecords
\* rows, each of 0..MaxCells cells; a cell is known by its row and column
SheetTables ==
  {[i \in DOMAIN lens |-> Cells(i, lens[i])] :
     lens \in UNION {[1..n -> 0..MaxCells] : n \in 0..(MaxRecords + 1)}}

\* the loop body of lines 309-311 alone: short rows padded, long rows kept
normalizeRowPadOnly(row, columnCount) == PadTo(row, columnCount)

\* lines 309-315: push('') while the row is short, slice(0, columnCount)
\* when it is long
normalizeRow(row, columnCount) ==
  SubSeq(PadTo(row, columnCount), 1, columnCount)

\* the loop of lines 307-316: the header row is the reference and is kept
normalizeTable(data) ==
  [i \in DOMAIN data |->
     IF i = 1 THEN data[1] ELSE normalizeRow(data[i], Len(data[1]))]

\* the object of a failed return; it has no counts
WriteFailed(m) == [success |-> FALSE, message |-> m, rowCount |-> 0, columnCount |-> 0]

\* the object of lines 423-428
WriteDone(data) ==
  [success |-> TRUE, message |-> "Data written", rowCount |-> Len(data),
   columnCount |-> Len(data[1])]

\* the call, the test for no data and the normalization of the rows
WriteToSheet ==
  /\ ws = "off"
  /\ IF wsInput = <<>>
     THEN /\ ws' = "ret"
          /\ wsResult' = WriteFailed("No data to write")
          /\ UNCHANGED wsData
     ELSE /\ ws' = "getSheet"
          /\ wsData' = normalizeTable(wsInput)
          /\ UNCHANGED wsResult
  /\ UNCHANGED <<wsInput, clearFirst, sheetExisted, creationAttempts, wsLog, sheetOps>>
  /\ UNCHANGED exceptSheet

\* one pass of the while loop of lines 323-356.  getOrCreateSheet returns
\* the sheet (inserting it when there was none) or throws; getName or setName
\* can throw after the sheet was assigned.  The catch counts the attempt,
\* returns at the third, sleeps otherwise; the loop ends once sheet is set
WsGetOrCreate ==
  /\ ws = "getSheet"
  /\ \E o \in {"sheet", "threw", "nameThrew"} :
       LET got == o # "threw"
           failed == o # "sheet"
           n == IF failed THEN creationAttempts + 1 ELSE creationAttempts
           last == failed /\ n >= 3
       IN /\ creationAttempts' = n
          /\ wsLog' = wsLog \o <<"attempt">>
                        \o (IF failed /\ ~last THEN <<"sleep">> ELSE <<>>)
          /\ sheetOps' = IF got /\ ~sheetExisted /\ sheetOps = <<>>
                         THEN <<"insert">> ELSE sheetOps
          /\ IF last
             THEN /\ ws' = "ret"
                  /\ wsResult' = WriteFailed("Failed to create sheet after 3 attempts")
             ELSE /\ ws' = IF got THEN "verify" ELSE "getSheet"
                  /\ UNCHANGED wsResult
  /\ UNCHANGED <<wsInput, clearFirst, sheetExisted, wsData>>
  /\ UNCHANGED exceptSheet

\* lines 367-384: the sheet is looked up by name once more and inserted when
\* it is not found; an exception of the lookup goes to the outer catch
WsVerify ==
  /\ ws = "verify"
  /\ \E o \in {"exists", "inserted", "insertThrew", "threw"} :
       /\ sheetOps' = IF o = "inserted" THEN Append(sheetOps, "insert") ELSE sheetOps
       /\ IF o \in {"exists", "inserted"}
          THEN /\ ws' = "clear"
               /\ UNCHANGED wsResult
          ELSE /\ ws' = "ret"
               /\ wsResult' = WriteFailed(IF o = "threw" THEN "Unexpected error"
                                          ELSE "Sheet couldn't be created")
  /\ UNCHANGED <<wsInput, clearFirst, sheetExisted, wsData, creationAttempts, wsLog>>
  /\ UNCHANGED exceptSheet

\* lines 387-395: sheet.clear() when clearFirst; its exception is ignored
WsClear ==
  /\ ws = "clear"
  /\ ws' = "write"
  /\ \E cleared \in BOOLEAN :
       sheetOps' = IF clearFirst /\ cleared THEN Append(sheetOps, "clear") ELSE sheetOps
  /\ UNCHANGED <<wsInput, clearFirst, sheetExisted, wsData, creationAttempts, wsLog,
                 wsResult>>
  /\ UNCHANGED exceptSheet

\* lines 398-435: getRange throws for a range without columns; setValues
\* writes or throws; getLastRow can throw after the values were written
WsWrite ==
  /\ ws = "write"
  /\ ws' = "ret"
  /\ \E o \in {"written", "setValuesThrew", "lastRowThrew"} :
       IF Len(wsData[1]) = 0 \/ o = "setValuesThrew"
       THEN /\ wsResult' = WriteFailed("Failed to write data")
            /\ UNCHANGED sheetOps
       ELSE /\ sheetOps' = Append(sheetOps, "setValues")
            /\ wsResult' = IF o = "written" THEN WriteDone(wsData)
                           ELSE WriteFailed("Failed to write data")
  /\ UNCHANGED <<wsInput, clearFirst, sheetExisted, wsData, creationAttempts, wsLog>>
  /\ UNCHANGED exceptSheet

\* writeToSheet is about to be called with any table, for a sheet that
\* exists or not
SheetInit ==
  /\ ServiceIdle
  /\ DatesOff
  /\ FlatOff
  /\ QueryOff
  /\ IntentOff
  /\ PipeOff
  /\ LedgerOff
  /\ AuthOff
  /\ ChatOff
  /\ wsInput \in SheetTables
  /\ wsData = wsInput
  /\ clearFirst \in BOOLEAN
  /\ sheetExisted \in BOOLEAN
  /\ SheetIdle

SheetNext ==
  \/ WriteToSheet
  \/ WsGetOrCreate
  \/ WsVerify
  \/ WsClear
  \/ WsWrite

SpecSheet == SheetInit /\ [][SheetNext]_vars

-----------------------------------------------------------------------------
(* The sidebar (Script.html) sends a message; processQuery hands it to the *)
(* language model through processWithOpenAI.  A message is known by its    *)
(* role and by the number of the exchange it belongs to.                   *)

\* most messages sent in one session of the sidebar
MaxTurns == 6

SystemMessage == [role |-> "system", turn |-> 0]

\* { role: 'user', content: messageText }
UserMessage(n) == [role |-> "user", turn |-> n]

\* { role: 'assistant', content: response.message }
AssistantMessage(n) == [role |-> "assistant", turn |-> n]

\* conversationHistory.slice(-5)
recentHistory(history) ==
  IF Len(history) <= 5 THEN history
  ELSE SubSeq(history, Len(history) - 4, Len(history))

\* the list messages of processWithOpenAI: the system message, the recent
\* history when there is a history, the query
processWithOpenAIMessages(query, history) ==
  <<SystemMessage>> \o recentHistory(history) \o <<query>>

\* analyzeQueryIntent(query, conversationHistory): the query and the history
\* are given to the language model as they were received
analyzeQueryIntent(query, history) == processWithOpenAIMessages(query, history)

\* sendMessage(): the message is pushed to conversationHistory, then
\* processQuery is called with the text and the list
SendMessage ==
  /\ chat = "idle"
  /\ chatTurn < MaxTurns
  /\ chatTurn' = chatTurn + 1
  /\ conversationHistory' = Append(conversationHistory, UserMessage(chatTurn + 1))
  /\ chat' = "sent"
  /\ messages' = <<>>
  /\ UNCHANGED exceptChat

\* processQuery on the server: the intent is asked for, unless an exception
\* comes first (logAction, or no API key) and the catch answers
ChatProcessQuery ==
  /\ chat = "sent"
  /\ \E asked \in BOOLEAN :
       /\ messages' = IF asked
                      THEN analyzeQueryIntent(UserMessage(chatTurn), conversationHistory)
                      ELSE <<>>
       /\ chat' = IF asked THEN "asked" ELSE "answered"
  /\ UNCHANGED <<conversationHistory, chatTurn>>
  /\ UNCHANGED exceptChat

\* the language model has answered or failed; processQuery returns
ChatOracleReturn ==
  /\ chat = "asked"
  /\ chat' = "answered"
  /\ UNCHANGED <<conversationHistory, chatTurn, messages>>
  /\ UNCHANGED exceptChat

\* handleResponse pushes the answer of the assistant; with no response
\* object, and in handleError, nothing is pushed
ChatHandleResponse ==
  /\ chat = "answered"
  /\ chat' = "idle"
  /\ \E pushed \in BOOLEAN :
       conversationHistory' =
         IF pushed THEN Append(conversationHistory, AssistantMessage(chatTurn))
         ELSE conversationHistory
  /\ UNCHANGED <<chatTurn, messages>>
  /\ UNCHANGED exceptChat

ChatInit ==
  /\ ServiceIdle
  /\ LibOff

ChatNext ==
  \/ SendMessage
  \/ ChatProcessQuery
  \/ ChatOracleReturn
  \/ ChatHandleResponse

SpecChat == ChatInit /\ [][ChatNext]_vars

-----------------------------------------------------------------------------
(* Properties *)

Range(s) == {s[i] : i \in DOMAIN s}

\* C1: getProfitAndLossReport never throws to its caller: whenever it has
\* finished, whatever the direct report call, the account queries and the
\* transaction queries did, it has returned a report tree.
C1_NeverThrows == pl = "ret" => plResult.k = "tree"

\* C2: when the direct report call failed with a permission error (status
\* 403) or a malformed response (a 200 body that cannot be used), the chain
\* goes on to the account-balance aggregation and throws nothing.
C2_AdvanceOnPermissionOrMalformed ==
  (outcomes # <<>> /\ outcomes[1] \in {"Status403", "InvalidFormat"})
    => /\ Len(invoked) >= 2
       /\ invoked[2] = "alternative"
       /\ ~(Len(outcomes) = 1 /\ plResult.k = "throw")

\* C3: every tree getProfitAndLossReport returns has a Columns.Column header
\* list and a Rows.Row collection.
C3_ColumnsAndRows ==
  (pl = "ret" /\ plResult.k = "tree") => (plResult.Columns /\ plResult.Rows)

\* C4: one makeApiCall sends the request once when the first response is not
\* a 401, and at most twice when it is; the second request is sent only
\* after a successful refresh that the 401 triggered, and what it answers is
\* the result: nothing is sent after it.
C4_RequestCount ==
  /\ fetchCount <= 2
  /\ (mac = "ret" /\ firstCode # 0 /\ firstCode # 401) => fetchCount = 1
  /\ fetchCount = 2 => /\ firstCode = 401
                       /\ Refreshed("401", TRUE) \in Range(refreshLog)
                       /\ mac = "ret"

\* C4 witness: a 401, a successful refresh, and a second 401 that is returned
C4_Witness ==
  /\ mac = "ret"
  /\ fetchCount = 2
  /\ firstCode = 401
  /\ macResult.k = "resp"
  /\ macResult.code = 401

\* C5: once makeApiCall has surfaced the authorization failure of a 401 whose
\* refresh was impossible or failed, getReport does not send the request
\* again.
C5_NoResendAfterAuthFailure ==
  "AuthFailed" \in Range(attemptLog) => fetchCount = 0

C7_ExpiredTokenIsRefreshed ==
  (gr = "ret" /\ grResult = SystemFault(ErrNotAuthenticated)) => ~canRefresh

\* C8: getReport calls makeApiCall at most 3 times; it sleeps only between two
\* attempts, never after the last one; each sleep is twice the previous one.
C8_BoundedBackoff ==
  /\ Len(attemptLog) <= 3
  /\ gr = "wait" => Len(attemptLog) <= 2
  /\ gr \in {"loop", "wait"} => Len(sleeps) = Len(attemptLog)
  /\ (gr = "ret" /\ attemptLog # <<>>) => Len(sleeps) = Len(attemptLog) - 1
  /\ (gr = "ret" /\ attemptLog = <<>>) => sleeps = <<>>
  /\ \A i \in 2..Len(sleeps) : sleeps[i] = 2 * sleeps[i - 1]

\* C8 witness: three attempts, two sleeps
C8_Witness ==
  /\ gr = "ret"
  /\ Len(attemptLog) = 3
  /\ sleeps = <<2000, 4000>>

C11_AlternativeNeedsDataRow ==
  (pl = "ret" /\ plResult.k = "tree" /\ plResult.src = "alternative")
    => plResult.data > 0

\* the order of the query blocks of getBasicTransactionPLReport
TypeOrder == <<"Invoice", "SalesReceipt", "Deposit", "Bill", "Purchase", "Expense">>

\* position of a transaction type in TypeOrder
Pos(t) == CHOOSE i \in DOMAIN TypeOrder : TypeOrder[i] = t

\* both types are income types or both are expense types
SameSide(t, u) == (t \in IncomeTypes) = (u \in IncomeTypes)

\* C12: the types are queried in the order Invoice, SalesReceipt, Deposit,
\* Bill, Purchase, Expense, each side from its first type on without a gap;
\* a type is queried only if no earlier type of its side has yielded a
\* record; at most one type of each side contributes to the totals
C12_TypesInOrderUntilOneYields ==
  /\ \A i \in DOMAIN queried : \A j \in DOMAIN queried :
       i < j => Pos(queried[i]) < Pos(queried[j])
  /\ \A i \in DOMAIN queried :
       \/ queried[i] \in {"Invoice", "Bill"}
       \/ /\ i > 1
          /\ Pos(queried[i - 1]) = Pos(queried[i]) - 1
          /\ \A c \in Range(contributed) :
               Pos(c) < Pos(queried[i]) => ~SameSide(c, queried[i])
  /\ \A i \in DOMAIN contributed : \A j \in DOMAIN contributed :
       i # j => ~SameSide(contributed[i], contributed[j])
  /\ Range(contributed) \subseteq Range(queried)

\* the method has returned after Invoice threw or was empty, SalesReceipt
\* yielded records, and Bill yielded records
C12_Witness ==
  /\ basic = "ret"
  /\ queried = <<"Invoice", "SalesReceipt", "Bill">>
  /\ contributed = <<"SalesReceipt", "Bill">>

\* C13: when every strategy that ran has thrown, the chain returns a tree
\* whose rows are placeholders
C13_AllThrowGivesPlaceholder ==
  (/\ pl = "ret"
   /\ outcomes # <<>>
   /\ \A i \in DOMAIN outcomes : outcomes[i] \notin {"usable", "norows", "tree"})
    => (plResult.k = "tree" /\ plResult.data = 0)

\* C14: every date range a strategy uses is a pair of YYYY-MM-DD dates, and
\* when the start or the end date passed in was malformed, that range is
\* 1 January to 31 December of the current year
C14_DatesNormalized ==
  \A i \in DOMAIN usedDates :
    /\ usedDates[i].start_date.kind = "iso"
    /\ usedDates[i].end_date.kind = "iso"
    /\ ("malformed" \in {rawParams.start_date.kind, rawParams.end_date.kind}
          => /\ usedDates[i].start_date.day = 1
             /\ usedDates[i].end_date.day = YearDays)

\* C15: every row of the table of either flattener has as many cells as
\* the header row
C15_RowWidth ==
  flatFn # "none" =>
    \A i \in DOMAIN flatResult.rows :
      Len(flatResult.rows[i]) = Len(flatResult.headers)

\* the first entry of a ColData list; the empty string when it has none
FirstCell(cells) == IF cells = <<>> THEN Empty ELSE cells[1]

RECURSIVE DocOrder(_)
\* the first cells of the rows of a list of nodes in depth-first document
\* order: a section gives its header (when it has one) and then its
\* children, a data row and a summary row give themselves
DocOrder(rows) ==
  IF rows = <<>> THEN <<>>
  ELSE LET r == Head(rows)
           own == IF r.type = "Section" \/ r.Rows.has
                  THEN (IF r.Header.has THEN <<FirstCell(r.Header.ColData)>> ELSE <<>>)
                       \o DocOrder(r.Rows.Row)
                  ELSE IF r.ColData.has THEN <<FirstCell(r.ColData.ColData)>>
                  ELSE IF r.Summary.has THEN <<FirstCell(r.Summary.ColData)>>
                  ELSE <<>>
       IN own \o DocOrder(Tail(rows))

\* C16: the rows of the table are the section headers, data rows and
\* summary rows of the tree in depth-first document order, none of them
\* lost (for a report with Columns, a first cell in every row and at least
\* one such row)
C16_DocumentOrder ==
  LET expected == DocOrder(reportData.Rows.Row)
  IN (/\ flatFn # "none"
      /\ reportData.Columns.k # "absent"
      /\ expected # <<>>
      /\ Empty \notin Range(expected))
       => [i \in DOMAIN flatResult.rows |-> flatResult.rows[i][1]] = expected

\* a node without Header, ColData, Summary and child rows; with onlyUntyped
\* also without the type 'Section' or 'Data'
Shapeless(row, onlyUntyped) ==
  /\ ~row.Header.has
  /\ ~row.ColData.has
  /\ ~row.Summary.has
  /\ ~row.Rows.has
  /\ onlyUntyped => row.type = "none"

RECURSIVE Without(_, _)
\* a list of nodes with the shapeless nodes taken out at every level
Without(rows, onlyUntyped) ==
  IF rows = <<>> THEN <<>>
  ELSE LET r == Head(rows)
           rest == Without(Tail(rows), onlyUntyped)
       IN IF Shapeless(r, onlyUntyped) THEN rest
          ELSE <<[r EXCEPT !.Rows.Row = Without(@, onlyUntyped)]>> \o rest

\* the function that was applied, applied to another report
Flattened(data) ==
  IF flatFn = "formatReportData" THEN formatReportData(data)
  ELSE formatDataForSheet(data)

Resolve(v, parts) ==
  IF parts = <<>> THEN v
  ELSE IF Len(parts) = 1 THEN Get(v, parts[1])
  ELSE Get(Get(v, parts[1]), parts[2])

\* the paths a record of Entities can have
Paths == {<<"Id">>, <<"BillAddr">>, <<"Line">>, <<"BillAddr", "City">>}

\* C18: the table of formatQueryData has one row per record under the
\* header row; the headers are the paths of the first record that end in a
\* value that is no object and no array; every row has as many cells as
\* there are headers; the cell of a record that lacks the path is ''
C18_RectangularTable ==
  (queryFn = "formatQueryData" /\ queryData.entities # <<>>) =>
    LET es == queryData.entities
        hs == queryResult.headers
    IN /\ DOMAIN queryResult.rows = DOMAIN es
       /\ \A q \in Paths :
            q \in Range(hs) <=> Resolve(Obj(es[1]), q).t \notin {"undefined", "object", "array"}
       /\ \A i \in DOMAIN es :
            /\ Len(queryResult.rows[i]) = Len(hs)
            /\ \A j \in DOMAIN hs :
                 Resolve(Obj(es[i]), hs[j]) = Undefined
                   => queryResult.rows[i][j] = EmptyString

\* two records have been formatted, the first with BillAddr.City, the
\* second without BillAddr
C18_Witness ==
  /\ queryFn = "formatQueryData"
  /\ Len(queryData.entities) = 2
  /\ <<"BillAddr", "City">> \in Range(queryResult.headers)
  /\ Get(Obj(queryData.entities[2]), "BillAddr") = Undefined
  /\ EmptyString \in Range(queryResult.rows[2])

\* C19: every field of the first record whose value is an array has a
\* column of its own, and the cell of a record with an array in that field
\* is the serialized array
C19_ArrayKeptAsColumn ==
  (queryFn # "none" /\ queryData.entities # <<>>) =>
    LET es == queryData.entities
    IN \A k \in DOMAIN es[1] :
         es[1][k].val = Arr =>
           \E j \in DOMAIN queryResult.headers :
             /\ queryResult.headers[j] = <<es[1][k].key>>
             /\ \A i \in DOMAIN es :
                  Get(Obj(es[i]), es[1][k].key) = Arr
                    => queryResult.rows[i][j] = Json(Arr)

\* C20: a normalized fetch/report intent has both dates or none
C20_BothDatesOrNone ==
  (intentPc = "normalized" /\ intent.type = "fetch" /\ intent.action = "report")
    => (intent.filters.startDate = "" <=> intent.filters.endDate = "")

\* C21: a fetch/report intent without dates gets the first and the last day
\* of the current month and the mark usedDefaultDates
C21_DefaultsAreCurrentMonth ==
  (/\ intentPc = "normalized"
   /\ LET t == IF rawIntent.type = "" THEN "unknown" ELSE rawIntent.type
      IN t = "fetch" /\ rawIntent.action = "report"
   /\ rawIntent.filters.startDate = ""
   /\ rawIntent.filters.endDate = "")
    => /\ intent.filters.startDate = "firstDayOfMonth"
       /\ intent.filters.endDate = "lastDayOfMonth"
       /\ {intent.filters.startDate, intent.filters.endDate} \subseteq DaysOfMonth
       /\ intent.parameters.usedDefaultDates

\* C22: normalizing a normalized intent again, with the same query and at
\* the same time, changes no field
C22_Idempotent ==
  [][intentPc = "normalized" => intent' = intent]_vars

\* C23: a raw intent with an API call and a missing or unknown type is
\* normalized to custom; without any API call it stays unknown
C23_CustomPromotion ==
  (intentPc = "normalized" /\ rawIntent.type \in {"", "unknown"}) =>
    IF rawIntent.qboApiCall # "" \/ rawIntent.sheetsApiCall # ""
    THEN intent.type = "custom"
    ELSE intent.type = "unknown"

C23_Witness ==
  /\ intentPc = "normalized"
  /\ rawIntent.type = ""
  /\ rawIntent.qboApiCall = "reports/ProfitAndLoss"
  /\ rawIntent.sheetsApiCall = ""
  /\ intent.type = "custom"

\* C24: a returned intent has an explanation: the one of the language model
\* when it gave one, otherwise one of the texts of generateExplanation
C24_ExplanationNonEmpty ==
  (intentPc \in {"normalized", "renormalized"}) =>
    /\ intent.explanation # ""
    /\ IF rawIntent.explanation # ""
       THEN intent.explanation = rawIntent.explanation
       ELSE intent.explanation \in
              {"Fetch the report", "Fetch from QuickBooks", "Create a new sheet",
               "Add a new row", "Clear range", "Execute a custom operation",
               "Provide help information", "Run diagnostic tests", "Process the request"}

C24_Witness ==
  /\ intentPc = "normalized"
  /\ rawIntent.explanation = ""
  /\ intent.type = "unknown"
  /\ intent.explanation = "Process the request"

\* C30: the request retried after a 401 and a successful refresh carries
\* the token that refresh has stored, not the token that was rejected
C30_RetryCarriesRefreshedToken ==
  (mac = "ret" /\ fetchCount = 2) =>
    /\ refreshLog # <<>>
    /\ refreshLog[Len(refreshLog)] = Refreshed("401", TRUE)
    /\ sentTokens[2] = NewToken(sentTokens[1])
    /\ sentTokens[2] = accessToken
    /\ sentTokens[2] # sentTokens[1]

C30_Witness ==
  /\ mac = "ret"
  /\ firstCode = 401
  /\ Len(sentTokens) = 2
  /\ macResult.k = "resp"

\* C25: when the content of the language model's reply cannot be parsed,
\* processWithOpenAI returns an intent of type unknown and throws nothing
C25_UnparseableGivesUnknown ==
  (oai = "ret" /\ oaiResult.reply = "unparseable") =>
    /\ oaiResult.res.k = "intent"
    /\ oaiResult.res.intent.type = "unknown"

\* C26: processQuery ends with a response, of type error with a message
\* when something has failed, and no exception leaves it
C26_ProcessQueryNeverThrows ==
  (pq = "ret") =>
    /\ pqResult.k = "resp"
    /\ pqResult.type \in ResponseTypes
    /\ pqError # "none" => (pqResult.type = "error" /\ pqResult.message # <<>>)

\* C27: a logAction call that fails leaves the outcome of processQuery as
\* it is: the response executeIntent has returned is the response of
\* processQuery, and no error it reports comes from logAction
C27_SinkFailureKeepsOutcome ==
  (pq = "ret") =>
    /\ pqResponse # "none" => pqResult = Response(pqResponse, <<>>)
    /\ pqError # "logAction"

C29_DiagnosticEnvelope ==
  (wrap = "ret" /\ Len(probeLog) = Len(Probes)) =>
    /\ wrapResult.type = "diagnostic"
    /\ Len(wrapResult.message) >= 1
    /\ wrapResult.message[1] = "QuickBooks Diagnostic Results"

\* C35: within one run of getProfitAndLossReport no strategy is invoked
\* twice
C35_EachStrategyOnce ==
  \A i, j \in DOMAIN invoked : i # j => invoked[i] # invoked[j]

IncomeYield == {i \in DOMAIN contributed : contributed[i] \in IncomeTypes}

ExpenseYield == {i \in DOMAIN contributed : contributed[i] \notin IncomeTypes}

\* the sum of TotalAmt over the records of the positions ys: 0 when there is
\* none, the records of the one type otherwise
YieldTotal(ys) == IF ys = {} THEN 0 ELSE SumAmt(txnYield[CHOOSE i \in ys : TRUE])

\* C37: in the report getBasicTransactionPLReport builds, the last row is Net
\* Income, total income minus total expenses; each total is the sum of
\* TotalAmt over the records of the one type that yielded data on its side,
\* 0 when none did; a Total Income / Total Expenses row is there exactly when
\* a type of the side yielded data
C37_NetIncomeRow ==
  (basic = "ret" /\ reportName = "Profit and Loss (Basic)") =>
    /\ Cardinality(IncomeYield) <= 1
    /\ Cardinality(ExpenseYield) <= 1
    /\ totalIncome = YieldTotal(IncomeYield)
    /\ totalExpenses = YieldTotal(ExpenseYield)
    /\ reportRows[Len(reportRows)] =
         DataRow("Net Income", YieldTotal(IncomeYield) - YieldTotal(ExpenseYield))
    /\ (IncomeYield # {}) <=>
         (\E i \in DOMAIN reportRows :
            reportRows[i] = DataRow("Total Income", YieldTotal(IncomeYield)))
    /\ (ExpenseYield # {}) <=>
         (\E i \in DOMAIN reportRows :
            reportRows[i] = DataRow("Total Expenses", YieldTotal(ExpenseYield)))
    /\ (IncomeYield = {}) <=>
         (\A i \in DOMAIN reportRows : reportRows[i].label # "Total Income")
    /\ (ExpenseYield = {}) <=>
         (\A i \in DOMAIN reportRows : reportRows[i].label # "Total Expenses")

C37_Witness ==
  /\ basic = "ret"
  /\ reportName = "Profit and Loss (Basic)"
  /\ contributed = <<"Deposit", "Purchase">>
  /\ txnYield = <<<<1>>, <<2, 1>>>>
  /\ reportRows[Len(reportRows)].value = 0 - 2

C32_OnlyBooleansObserved ==
  authResult.op = "getOAuthToken" =>
    \A t \in 0..(TokenIds - 1) :
      authResult.value = getOAuthToken(authResult.value.hasAccess, t)

\* C38: after resetAllAuth has succeeded the script properties are the
\* credentials that were stored non-empty, with their values, and nothing
\* else
C38_ResetKeepsCredentialsOnly ==
  (authResult.op = "resetAllAuth" /\ authResult.success) =>
    /\ DOMAIN scriptProps =
         {k \in CredentialKeys : k \in DOMAIN authResult.before
                                   /\ authResult.before[k] # ""}
    /\ \A k \in DOMAIN scriptProps : scriptProps[k] = authResult.before[k]
    /\ "OPENAI_API_KEY" \notin DOMAIN scriptProps

C38_Witness ==
  /\ authResult.op = "resetAllAuth"
  /\ authResult.success
  /\ authResult.before =
       [k \in CredentialKeys \cup {"OPENAI_API_KEY"} |->
          CASE k = "QBO_CLIENT_ID" -> "id"
            [] k = "QBO_CLIENT_SECRET" -> ""
            [] k = "QBO_COMPANY_ID" -> "realm"
            [] OTHER -> "sk"]
  /\ DOMAIN scriptProps = {"QBO_CLIENT_ID", "QBO_COMPANY_ID"}

\* C33: the table handed to setValues has in every row as many cells as the
\* header row: the cells of the caller's row in their order, then empty
\* strings, cut at the header width; the counts of the result are the number
\* of rows and the header width of the caller's table
C33_WrittenTableRectangular ==
  (\E k \in DOMAIN sheetOps : sheetOps[k] = "setValues") =>
    /\ Len(wsData) = Len(wsInput)
    /\ \A i \in DOMAIN wsData :
         /\ Len(wsData[i]) = Len(wsInput[1])
         /\ \A j \in DOMAIN wsData[i] :
              wsData[i][j] = IF j <= Len(wsInput[i]) THEN wsInput[i][j] ELSE Empty
    /\ wsResult.success =>
         /\ wsResult.rowCount = Len(wsInput)
         /\ wsResult.columnCount = Len(wsInput[1])

C33_Witness ==
  /\ ws = "ret"
  /\ wsResult.success
  /\ Len(wsInput) = 3
  /\ Len(wsInput[1]) = 2
  /\ Len(wsInput[2]) = 1
  /\ Len(wsInput[3]) = 3

\* C34: writeToSheet returns an object; it tries to get the sheet at most 3
\* times, every sleep is followed by another attempt, three failed attempts
\* give success false, and an empty table gives success false with nothing
\* done to any sheet
C34_BoundedAttempts ==
  /\ Cardinality({k \in DOMAIN wsLog : wsLog[k] = "attempt"}) <= 3
  /\ creationAttempts <= 3
  /\ \A k \in DOMAIN wsLog :
       wsLog[k] = "sleep" =>
         /\ k > 1 /\ wsLog[k - 1] = "attempt"
         /\ k < Len(wsLog) \/ ws = "getSheet"
         /\ k < Len(wsLog) => wsLog[k + 1] = "attempt"
  /\ ws = "ret" =>
       /\ wsResult # NoWrite
       /\ creationAttempts = 3 => ~wsResult.success
       /\ wsInput = <<>> => (~wsResult.success /\ sheetOps = <<>> /\ wsLog = <<>>)

\* C39: a return of success false leaves the contents of a sheet that
\* existed as they were: it was neither cleared nor written
C39_FailureLeavesSheet ==
  (ws = "ret" /\ ~wsResult.success /\ sheetExisted) =>
    \A k \in DOMAIN sheetOps : sheetOps[k] \notin {"clear", "setValues"}

\* C40: the list given to the language model for a query of the sidebar is
\* the system message, then at most the 5 latest entries of the history in
\* their order, then the query; the query is in the list once
C40_QueryOnceInMessages ==
  chat = "asked" =>
    LET n == Len(messages)
        middle == SubSeq(messages, 2, n - 1)
        h == conversationHistory
    IN /\ n >= 2
       /\ messages[1] = SystemMessage
       /\ messages[n] = UserMessage(chatTurn)
       /\ Len(middle) <= 5
       /\ Len(middle) <= Len(h)
       /\ middle = SubSeq(h, Len(h) - Len(middle) + 1, Len(h))
       /\ Cardinality({i \in DOMAIN messages : messages[i] = UserMessage(chatTurn)}) = 1

====
